---- MODULE Spec2Model ----
(***************************************************************************)
(* Model of fez-route: the MIP encoding of the route problem (opt.rs),     *)
(* the solver adapter (glpk/src/lib.rs) and the branch-and-cut callbacks.  *)
(*                                                                         *)
(* Numbers: f64 values of edge variables are integers in units of EPS, so  *)
(* that 1.0 is One = 10^6 * EPS.  A row "sum of coef*x (<=,=,>=) bound" is  *)
(* compared as sum of coef*x against bound*One.                            *)
(***************************************************************************)
EXTENDS Integers, Sequences, FiniteSets, TLC

EPS == 1
One == 1000000 * EPS
Half == One \div 2

None == {}
Some(v) == {v}
Unwrap(o) == CHOOSE v \in o : TRUE

Max(a, b) == IF a >= b THEN a ELSE b
Min(a, b) == IF a <= b THEN a ELSE b

RECURSIVE SeqDesc(_)
\* the elements of a finite set of integers, largest first
SeqDesc(S) ==
  IF S = {} THEN <<>>
  ELSE LET m == CHOOSE a \in S : \A b \in S : b <= a
       IN <<m>> \o SeqDesc(S \ {m})

RECURSIVE SeqAsc(_)
\* the elements of a finite set of integers, smallest first
SeqAsc(S) ==
  IF S = {} THEN <<>>
  ELSE LET m == CHOOSE a \in S : \A b \in S : a <= b
       IN <<m>> \o SeqAsc(S \ {m})

Range(s) == {s[i] : i \in 1..Len(s)}

RECURSIVE Concat(_)
\* flat_map(...).collect(): concatenation of a sequence of sequences
Concat(ss) == IF ss = <<>> THEN <<>> ELSE Head(ss) \o Concat(Tail(ss))

(***************************************************************************)
(* Graph Model: StableGraph<Node, Edge>.  nodes / edges list the indices   *)
(* that exist, in iteration order; nw / ew give the weights.               *)
(***************************************************************************)
Node(bits, keys, cost, time) ==
  [bits |-> bits, keys |-> keys, cost |-> cost, time |-> time]

Distance(dx, dy, dz) == [dx |-> dx, dy |-> dy, dz |-> dz]

Edge(s, t, time, cost) == [s |-> s, t |-> t, time |-> time, cost |-> cost]

\* a graph built by add_node / add_edge only: indices are dense from zero
MkGraph(nws, ews) ==
  [nodes |-> [i \in 1..Len(nws) |-> i - 1],
   nw    |-> [n \in 0..(Len(nws) - 1) |-> nws[n + 1]],
   edges |-> [i \in 1..Len(ews) |-> i - 1],
   ew    |-> [e \in 0..(Len(ews) - 1) |-> ews[e + 1]]]

\* StableGraph::remove_edge: the index disappears, the others keep theirs
remove_edge(g, e) ==
  [g EXCEPT !.edges = SelectSeq(g.edges, LAMBDA i : i # e)]

\* StableGraph::remove_node: the node and every edge touching it disappear
remove_node(g, n) ==
  [g EXCEPT !.nodes = SelectSeq(g.nodes, LAMBDA i : i # n),
            !.edges = SelectSeq(g.edges,
                        LAMBDA i : g.ew[i].s # n /\ g.ew[i].t # n)]

NodeSet(g) == Range(g.nodes)
EdgeSet(g) == Range(g.edges)

\* edges_directed(n, Incoming / Outgoing): most recently added edge first
edges_directed_in(g, n) == SeqDesc({e \in EdgeSet(g) : g.ew[e].t = n})
edges_directed_out(g, n) == SeqDesc({e \in EdgeSet(g) : g.ew[e].s = n})

\* externals(Incoming) / externals(Outgoing), in node order
externals_in(g) ==
  SelectSeq(g.nodes, LAMBDA n : \A e \in EdgeSet(g) : g.ew[e].t # n)
externals_out(g) ==
  SelectSeq(g.nodes, LAMBDA n : \A e \in EdgeSet(g) : g.ew[e].s # n)

\* find_edge(a, b): the first edge a->b in a's outgoing list, if any
find_edge(g, a, b) ==
  LET es == {e \in EdgeSet(g) : g.ew[e].s = a /\ g.ew[e].t = b}
  IN IF es = {} THEN None
     ELSE Some(CHOOSE e \in es : \A f \in es : f <= e)

\* Edge::get_frames
get_frames(edge) ==
  LET xz_frames == Min(edge.time.dx, edge.time.dz) * 6
      y_frames == edge.time.dy * 6
  IN Max(xz_frames, y_frames)

\* Node::keys_minus_lock
keys_minus_lock(node) ==
  node.keys + (IF node.cost = "lock" THEN 0 - 1 ELSE 0)

(***************************************************************************)
(* Solver Adapter data (glpk/src/lib.rs): Bounds, Var, Expr, VarRefs and   *)
(* the problem object, whose columns and rows are numbered from 1.         *)
(***************************************************************************)
Lower(v) == [kind |-> "Lower", lower |-> v, upper |-> 0]
Upper(v) == [kind |-> "Upper", lower |-> 0, upper |-> v]
Double(l, u) == [kind |-> "Double", lower |-> l, upper |-> u]
Fixed(v) == [kind |-> "Fixed", lower |-> v, upper |-> 0]

\* a formatted name: the text that is fixed and the indices put into it
Name(kind, of) == [kind |-> kind, of |-> of]

Var(name, kind, bounds, objective) ==
  [name |-> name, kind |-> kind, bounds |-> bounds, objective |-> objective]

Expr(name, bounds, terms) ==
  [name |-> name, bounds |-> bounds, terms |-> terms]

\* VarRef * f64
Term(var, coef) == <<var, coef>>

\* VarRefs::get
VarRefsGet(refs, index) == refs.first + index

\* Problem::new
NewProblem == [created |-> TRUE, vars |-> <<>>, rows |-> <<>>]
NoProblem == [created |-> FALSE, vars |-> <<>>, rows |-> <<>>]

\* Prob::alloc_vars: glp_add_cols returns the ordinal of the first new column
alloc_vars(problem, len) ==
  [first |-> IF len = 0 THEN Len(problem.vars) ELSE Len(problem.vars) + 1,
   len |-> len]

\* Prob::add_vars
add_vars(problem, specs) == [problem EXCEPT !.vars = @ \o specs]

\* Prob::add_exprs
add_exprs(problem, specs) == [problem EXCEPT !.rows = @ \o specs]

\* Prob::add_expr
add_expr(problem, spec) == [problem EXCEPT !.rows = Append(@, spec)]

(***************************************************************************)
(* Problem Encoder (opt.rs)                                                *)
(***************************************************************************)
MapSeq(s, F(_)) == [i \in 1..Len(s) |-> F(s[i])]

\* edge_vars with the frames of the edge alone as the objective coefficient
edge_vars_frames_only(graph) ==
  MapSeq(graph.edges,
         LAMBDA e : Var(Name("to", <<graph.ew[e].s, graph.ew[e].t>>), "Int",
                        Double(0, 1), get_frames(graph.ew[e])))

edge_vars(graph) ==
  MapSeq(graph.edges,
         LAMBDA e : Var(Name("to", <<graph.ew[e].s, graph.ew[e].t>>), "Int",
                        Double(0, 1),
                        get_frames(graph.ew[e]) + graph.nw[graph.ew[e].t].time))

\* flow_exprs with incoming edges counted +1 and outgoing edges -1
flow_exprs_in_minus_out(graph, edges, first_node, last_node) ==
  MapSeq(graph.nodes,
         LAMBDA n :
           Expr(Name("flow", <<n>>),
                Fixed(IF n = first_node THEN 1
                      ELSE IF n = last_node THEN 0 - 1 ELSE 0),
                MapSeq(edges_directed_in(graph, n),
                       LAMBDA e : Term(VarRefsGet(edges, e), 1))
                \o MapSeq(edges_directed_out(graph, n),
                          LAMBDA e : Term(VarRefsGet(edges, e), 0 - 1))))

flow_exprs(graph, edges, first_node, last_node) ==
  MapSeq(graph.nodes,
         LAMBDA n :
           Expr(Name("flow", <<n>>),
                Fixed(IF n = first_node THEN 1
                      ELSE IF n = last_node THEN 0 - 1 ELSE 0),
                MapSeq(edges_directed_in(graph, n),
                       LAMBDA e : Term(VarRefsGet(edges, e), 0 - 1))
                \o MapSeq(edges_directed_out(graph, n),
                          LAMBDA e : Term(VarRefsGet(edges, e), 1))))

\* capacity_exprs that lets a node be entered twice
capacity_exprs_twice(graph, edges, first_node, last_node) ==
  MapSeq(SelectSeq(graph.nodes, LAMBDA n : n # first_node /\ n # last_node),
         LAMBDA n :
           Expr(Name("capacity", <<n>>), Upper(2),
                MapSeq(edges_directed_in(graph, n),
                       LAMBDA e : Term(VarRefsGet(edges, e), 1))))

capacity_exprs(graph, edges, first_node, last_node) ==
  MapSeq(SelectSeq(graph.nodes, LAMBDA n : n # first_node /\ n # last_node),
         LAMBDA n :
           Expr(Name("capacity", <<n>>), Upper(1),
                MapSeq(edges_directed_in(graph, n),
                       LAMBDA e : Term(VarRefsGet(edges, e), 1))))

\* the rows "once" of the optimize of ll.rs: capacity on outgoing sums
ll_once_exprs(graph, edges, first_node, last_node) ==
  MapSeq(SelectSeq(graph.nodes, LAMBDA n : n # first_node /\ n # last_node),
         LAMBDA n :
           Expr(Name("once", <<n>>), Upper(1),
                MapSeq(edges_directed_out(graph, n),
                       LAMBDA e : Term(VarRefsGet(edges, e), 1))))

RECURSIVE ReachVia(_, _, _)
\* nodes reachable from the nodes of seen by edges of the set es
ReachVia(graph, es, seen) ==
  LET next == {graph.ew[e].t : e \in {f \in es : graph.ew[f].s \in seen}}
  IN IF next \subseteq seen THEN seen
     ELSE ReachVia(graph, es, seen \cup next)

\* d dominates n from root over the edges es: n is reachable, and no longer
\* so once d is taken out
Dominates(graph, es, root, d, n) ==
  /\ n \in ReachVia(graph, es, {root})
  /\ \/ d = n
     \/ d = root
     \/ n \notin ReachVia(graph,
                          {e \in es : graph.ew[e].s # d /\ graph.ew[e].t # d},
                          {root})

\* dominators::simple_fast(..).immediate_dominator(n): None for the root and
\* for nodes the root does not reach
immediate_dominator(graph, es, root, n) ==
  IF n = root \/ n \notin ReachVia(graph, es, {root}) THEN None
  ELSE LET sd == {d \in NodeSet(graph) :
                    d # n /\ Dominates(graph, es, root, d, n)}
       IN Some(CHOOSE d \in sd :
                 \A d2 \in sd : Dominates(graph, es, root, d2, d))

\* dominator_exprs with the dominators of the whole graph, secret doors
\* included
dominator_exprs_all_doors(graph, edges, first_node) ==
  LET idom(n) == immediate_dominator(graph, EdgeSet(graph), first_node, n)
      kept == SelectSeq(graph.nodes,
                        LAMBDA n : idom(n) # None /\ idom(n) # Some(first_node))
  IN MapSeq(kept,
            LAMBDA n :
              Expr(Name("dominator", <<n>>), Upper(0),
                   MapSeq(edges_directed_in(graph, n),
                          LAMBDA e : Term(VarRefsGet(edges, e), 1))
                   \o MapSeq(edges_directed_in(graph, Unwrap(idom(n))),
                             LAMBDA e : Term(VarRefsGet(edges, e), 0 - 1))))

dominator_exprs(graph, edges, first_node) ==
  LET no_secret_doors == {e \in EdgeSet(graph) : graph.ew[e].cost # "secret"}
      idom(n) == immediate_dominator(graph, no_secret_doors, first_node, n)
      kept == SelectSeq(graph.nodes,
                        LAMBDA n : idom(n) # None /\ idom(n) # Some(first_node))
  IN MapSeq(kept,
            LAMBDA n :
              Expr(Name("dominator", <<n>>), Upper(0),
                   MapSeq(edges_directed_in(graph, n),
                          LAMBDA e : Term(VarRefsGet(edges, e), 1))
                   \o MapSeq(edges_directed_in(graph, Unwrap(idom(n))),
                             LAMBDA e : Term(VarRefsGet(edges, e), 0 - 1))))

no_2_cycles(graph, edges) ==
  LET cand == SelectSeq(graph.edges,
                LAMBDA e : /\ graph.ew[e].s < graph.ew[e].t
                           /\ find_edge(graph, graph.ew[e].t, graph.ew[e].s)
                                # None)
  IN MapSeq(cand,
            LAMBDA a :
              Expr(Name("cycle", <<graph.ew[a].s, graph.ew[a].t>>), Upper(1),
                   <<Term(VarRefsGet(edges, a), 1),
                     Term(VarRefsGet(edges,
                            Unwrap(find_edge(graph, graph.ew[a].t,
                                             graph.ew[a].s))), 1)>>))

\* required_bits_expr with the threshold as an upper bound
required_bits_expr_upper(graph, edges, required_bits) ==
  Expr(Name("total_bits", <<>>), Upper(required_bits),
       Concat(MapSeq(SelectSeq(graph.nodes, LAMBDA n : graph.nw[n].bits # 0),
                     LAMBDA n :
                       MapSeq(edges_directed_in(graph, n),
                              LAMBDA e : Term(VarRefsGet(edges, e),
                                              graph.nw[n].bits)))))

required_bits_expr(graph, edges, required_bits) ==
  Expr(Name("total_bits", <<>>), Lower(required_bits),
       Concat(MapSeq(SelectSeq(graph.nodes, LAMBDA n : graph.nw[n].bits # 0),
                     LAMBDA n :
                       MapSeq(edges_directed_in(graph, n),
                              LAMBDA e : Term(VarRefsGet(edges, e),
                                              graph.nw[n].bits)))))

oneof_expr(graph, edges) ==
  Expr(Name("oneof", <<>>), Upper(1),
       Concat(MapSeq(SelectSeq(graph.nodes,
                               LAMBDA n : graph.nw[n].cost = "oneof"),
                     LAMBDA n :
                       MapSeq(edges_directed_in(graph, n),
                              LAMBDA e : Term(VarRefsGet(edges, e), 1)))))

\* total_keys_expr that counts the keys and forgets the locks
total_keys_expr_keys_only(graph, edges) ==
  Expr(Name("total_keys", <<>>), Lower(0),
       Concat(MapSeq(SelectSeq(graph.nodes, LAMBDA n : graph.nw[n].keys # 0),
                     LAMBDA n :
                       MapSeq(edges_directed_in(graph, n),
                              LAMBDA e : Term(VarRefsGet(edges, e),
                                              graph.nw[n].keys)))))

total_keys_expr(graph, edges) ==
  Expr(Name("total_keys", <<>>), Lower(0),
       Concat(MapSeq(SelectSeq(graph.nodes,
                               LAMBDA n : keys_minus_lock(graph.nw[n]) # 0),
                     LAMBDA n :
                       MapSeq(edges_directed_in(graph, n),
                              LAMBDA e : Term(VarRefsGet(edges, e),
                                              keys_minus_lock(graph.nw[n]))))))

(***************************************************************************)
(* Value Graph and Lazy Cut Generator (opt.rs)                             *)
(***************************************************************************)
\* value_graph whose edges run from their target to their source
value_graph_of_turned(graph, get) ==
  LET kept == SelectSeq(graph.edges, LAMBDA e : get[e] > EPS)
  IN [nodes |-> graph.nodes,
      nw    |-> graph.nw,
      edges |-> kept,
      ew    |-> [e \in Range(kept) |->
                   [s |-> graph.ew[e].t, t |-> graph.ew[e].s,
                    weight |-> get[e]]]]

\* value_graph that keeps an edge whose value is EPS as well
value_graph_of_from_eps(graph, get) ==
  LET kept == SelectSeq(graph.edges, LAMBDA e : get[e] >= EPS)
  IN [nodes |-> graph.nodes,
      nw    |-> graph.nw,
      edges |-> kept,
      ew    |-> [e \in Range(kept) |->
                   [s |-> graph.ew[e].s, t |-> graph.ew[e].t,
                    weight |-> get[e]]]]

\* value_graph: every node, and the edges whose value is above EPS, each
\* with the index and the endpoints it has in the graph
value_graph_of(graph, get) ==
  LET kept == SelectSeq(graph.edges, LAMBDA e : get[e] > EPS)
  IN [nodes |-> graph.nodes,
      nw    |-> graph.nw,
      edges |-> kept,
      ew    |-> [e \in Range(kept) |->
                   [s |-> graph.ew[e].s, t |-> graph.ew[e].t,
                    weight |-> get[e]]]]

\* value_graph: the values are Prob::get_value of the edges' variables
value_graph(graph, values, edges) ==
  value_graph_of(graph,
                 [e \in EdgeSet(graph) |-> values[VarRefsGet(edges, e)]])

\* value_graph_int: the values are Prob::get_int_value
value_graph_int(graph, int_values, edges) ==
  value_graph_of(graph,
                 [e \in EdgeSet(graph) |-> int_values[VarRefsGet(edges, e)]])

RECURSIVE SumBits(_, _)
SumBits(nw, ns) ==
  IF ns = {} THEN 0
  ELSE LET n == CHOOSE m \in ns : TRUE
       IN nw[n].bits + SumBits(nw, ns \ {n})

\* get_connected_nodes that counts the bits of first_node alone
get_connected_nodes_first_bits(values, first_node) ==
  LET discovered == ReachVia(values, EdgeSet(values), {first_node})
  IN [discovered |-> discovered,
      connected_bits |-> values.nw[first_node].bits]

\* get_connected_nodes: Dfs from first_node over the value graph
get_connected_nodes(values, first_node) ==
  LET discovered == ReachVia(values, EdgeSet(values), {first_node})
  IN [discovered |-> discovered,
      connected_bits |-> SumBits(values.nw, discovered)]

\* lazy_required_bits_expr that names the cut after the edges of the value
\* graph rather than after the nodes reached
lazy_required_bits_expr_edge_named(graph, edges, first_node, required_bits, values) ==
  LET c == get_connected_nodes(values, first_node)
      connected_nodes == c.discovered
  IN IF c.connected_bits < required_bits
     THEN Some(Expr(Name("cut", values.edges), Lower(1),
                    Concat(MapSeq(SeqAsc(connected_nodes),
                      LAMBDA n :
                        MapSeq(SelectSeq(edges_directed_out(graph, n),
                                 LAMBDA e :
                                   graph.ew[e].t \notin connected_nodes),
                               LAMBDA e : Term(VarRefsGet(edges, e), 1))))))
     ELSE None

\* lazy_required_bits_expr with <= for <: a cut also when the bits suffice
lazy_required_bits_expr_le(graph, edges, first_node, required_bits, values) ==
  LET c == get_connected_nodes(values, first_node)
      connected_nodes == c.discovered
  IN IF c.connected_bits <= required_bits
     THEN Some(Expr(Name("cut", SeqAsc(connected_nodes)), Lower(1),
                    Concat(MapSeq(SeqAsc(connected_nodes),
                      LAMBDA n :
                        MapSeq(SelectSeq(edges_directed_out(graph, n),
                                 LAMBDA e :
                                   graph.ew[e].t \notin connected_nodes),
                               LAMBDA e : Term(VarRefsGet(edges, e), 1))))))
     ELSE None

\* lazy_required_bits_expr whose row asks for a sum of 0 or more
lazy_required_bits_expr_lower0(graph, edges, first_node, required_bits, values) ==
  LET c == get_connected_nodes(values, first_node)
      connected_nodes == c.discovered
  IN IF c.connected_bits < required_bits
     THEN Some(Expr(Name("cut", SeqAsc(connected_nodes)), Lower(0),
                    Concat(MapSeq(SeqAsc(connected_nodes),
                      LAMBDA n :
                        MapSeq(SelectSeq(edges_directed_out(graph, n),
                                 LAMBDA e :
                                   graph.ew[e].t \notin connected_nodes),
                               LAMBDA e : Term(VarRefsGet(edges, e), 1))))))
     ELSE None

\* lazy_required_bits_expr that takes every edge leaving a reached node,
\* whether or not its target is reached
lazy_required_bits_expr_all_out(graph, edges, first_node, required_bits, values) ==
  LET c == get_connected_nodes(values, first_node)
      connected_nodes == c.discovered
  IN IF c.connected_bits < required_bits
     THEN Some(Expr(Name("cut", SeqAsc(connected_nodes)), Lower(1),
                    Concat(MapSeq(SeqAsc(connected_nodes),
                      LAMBDA n :
                        MapSeq(edges_directed_out(graph, n),
                               LAMBDA e : Term(VarRefsGet(edges, e), 1))))))
     ELSE None

lazy_required_bits_expr(graph, edges, first_node, required_bits, values) ==
  LET c == get_connected_nodes(values, first_node)
      connected_nodes == c.discovered
  IN IF c.connected_bits < required_bits
     THEN Some(Expr(Name("cut", SeqAsc(connected_nodes)), Lower(1),
                    Concat(MapSeq(SeqAsc(connected_nodes),
                      LAMBDA n :
                        MapSeq(SelectSeq(edges_directed_out(graph, n),
                                 LAMBDA e :
                                   graph.ew[e].t \notin connected_nodes),
                               LAMBDA e : Term(VarRefsGet(edges, e), 1))))))
     ELSE None

(***************************************************************************)
(* What the rows mean to the solver                                        *)
(***************************************************************************)
RECURSIVE TermSum(_, _, _)
TermSum(terms, x, i) ==
  IF i > Len(terms) THEN 0
  ELSE terms[i][2] * x[terms[i][1]] + TermSum(terms, x, i + 1)

\* glp_set_row_bnds: GLP_FX, GLP_UP, GLP_LO, GLP_DB
RowSat(row, x) ==
  LET v == TermSum(row.terms, x, 1)
      b == row.bounds
  IN CASE b.kind = "Fixed" -> v = b.lower * One
       [] b.kind = "Upper" -> v <= b.upper * One
       [] b.kind = "Lower" -> v >= b.lower * One
       [] b.kind = "Double" -> v >= b.lower * One /\ v <= b.upper * One

SatAll(rows, x) == \A i \in 1..Len(rows) : RowSat(rows[i], x)

RECURSIVE ObjSum(_, _, _)
ObjSum(vars, x, i) ==
  IF i > Len(vars) THEN 0
  ELSE vars[i].objective * x[i] + ObjSum(vars, x, i + 1)

\* the objective function glp_set_obj_coef builds up, at x
Objective(vars, x) == ObjSum(vars, x, 1)

(***************************************************************************)
(* Progress sink (render.rs) and the callback object of optimize (opt.rs)  *)
(***************************************************************************)
TRACE_CUT == 2147483647
RENDER_CUT == 2147483647
TRACE_BRANCH == 100
RENDER_BRANCH == 100

\* Renderer::new: try_init fails -> the error is logged and None returned
RendererNew(folder, fs_ok) ==
  IF fs_ok THEN Some([folder |-> folder]) ELSE None

\* Renderer::render: a failure of try_render is logged, nothing is returned
RendererRender(log, filename, values, fs_ok) ==
  Append(log, [filename |-> filename,
               shown |-> EdgeSet(values),
               failed |-> ~fs_ok])

NewClosure(renderer) ==
  [render |-> 0, cut |-> 0, branch |-> 0, solve |-> 0, renderer |-> renderer]

\* get_lazy_expr that keeps the cut counter when a relaxation is accepted
get_lazy_expr_keeps_cut(self, graph, edges, first_node, last_node, required_bits, x) ==
  LET values == value_graph(graph, x, edges)
      expr == lazy_required_bits_expr(graph, edges, first_node,
                                      required_bits, values)
  IN IF expr # None
     THEN LET cut == self.cut + 1
              shows == cut % RENDER_CUT = 0
              render == IF shows THEN self.render + 1 ELSE self.render
          IN [self |-> [self EXCEPT !.cut = cut, !.render = render],
              ret |-> expr,
              out |-> IF shows
                      THEN <<[filename |->
                                Name("cut", <<render, self.solve,
                                              self.branch, cut>>),
                              values |-> values]>>
                      ELSE <<>>]
     ELSE LET branch == self.branch + 1
              shows == branch % RENDER_BRANCH = 0
              render == IF shows THEN self.render + 1 ELSE self.render
          IN [self |-> [self EXCEPT !.branch = branch, !.render = render],
              ret |-> None,
              out |-> IF shows
                      THEN <<[filename |->
                                Name("branch", <<render, self.solve,
                                                 branch, self.cut>>),
                              values |-> values]>>
                      ELSE <<>>]

\* Closure::get_lazy_expr
get_lazy_expr(self, graph, edges, first_node, last_node, required_bits, x) ==
  LET values == value_graph(graph, x, edges)
      expr == lazy_required_bits_expr(graph, edges, first_node,
                                      required_bits, values)
  IN IF expr # None
     THEN LET cut == self.cut + 1
              shows == cut % RENDER_CUT = 0
              render == IF shows THEN self.render + 1 ELSE self.render
          IN [self |-> [self EXCEPT !.cut = cut, !.render = render],
              ret |-> expr,
              out |-> IF shows
                      THEN <<[filename |->
                                Name("cut", <<render, self.solve,
                                              self.branch, cut>>),
                              values |-> values]>>
                      ELSE <<>>]
     ELSE LET branch == self.branch + 1
              shows == branch % RENDER_BRANCH = 0
              render == IF shows THEN self.render + 1 ELSE self.render
          IN [self |-> [self EXCEPT !.branch = branch, !.render = render,
                                    !.cut = 0],
              ret |-> None,
              out |-> IF shows
                      THEN <<[filename |->
                                Name("branch", <<render, self.solve,
                                                 branch, self.cut>>),
                              values |-> values]>>
                      ELSE <<>>]

\* MipCallback::get_heuristic_solution, which Closure does not override
get_heuristic_solution(self) ==
  [self |-> self, ret |-> None, out |-> <<>>]

\* new_best_solution that counts and does not call the renderer
new_best_solution_silent(self, graph, edges, x) ==
  LET render == self.render + 1
      solve == self.solve + 1
  IN [self |-> [self EXCEPT !.render = render, !.solve = solve,
                            !.cut = 0, !.branch = 0],
      ret |-> None,
      out |-> <<>>]

\* Closure::new_best_solution
new_best_solution(self, graph, edges, x) ==
  LET render == self.render + 1
      solve == self.solve + 1
  IN [self |-> [self EXCEPT !.render = render, !.solve = solve,
                            !.cut = 0, !.branch = 0],
      ret |-> None,
      out |-> <<[filename |-> Name("solution", <<render, solve, self.branch>>),
                 values |-> value_graph(graph, x, edges)]>>]

(***************************************************************************)
(* Branching Heuristic (common.rs, opt.rs)                                 *)
(***************************************************************************)
Abs(a) == IF a < 0 THEN 0 - a ELSE a

\* values.edges(n) / values.neighbors(n): the outgoing edges kept in the
\* value graph, most recently added first
value_edges(values, n) ==
  SeqDesc({e \in EdgeSet(values) : values.ew[e].s = n})

RECURSIVE PushUndiscovered(_, _, _, _)
PushUndiscovered(values, stack, es, discovered) ==
  IF es = <<>> THEN stack
  ELSE LET succ == values.ew[Head(es)].t
       IN PushUndiscovered(values,
            IF succ \in discovered THEN stack ELSE Append(stack, succ),
            Tail(es), discovered)

RECURSIVE DfsPreOrder(_, _, _, _, _)
\* a depth-first walk that yields a node when it discovers it
DfsPreOrder(values, stack, discovered, finished, out) ==
  IF stack = <<>> THEN out
  ELSE LET nx == stack[Len(stack)]
       IN IF nx \notin discovered
          THEN DfsPreOrder(values,
                 PushUndiscovered(values, stack, value_edges(values, nx),
                                  discovered \cup {nx}),
                 discovered \cup {nx}, finished, Append(out, nx))
          ELSE DfsPreOrder(values, SubSeq(stack, 1, Len(stack) - 1),
                 discovered, finished \cup {nx}, out)

RECURSIVE DfsPostOrder(_, _, _, _, _)
\* DfsPostOrder::next, run to exhaustion: the nodes in the order they finish
DfsPostOrder(values, stack, discovered, finished, out) ==
  IF stack = <<>> THEN out
  ELSE LET nx == stack[Len(stack)]
       IN IF nx \notin discovered
          THEN DfsPostOrder(values,
                 PushUndiscovered(values, stack, value_edges(values, nx),
                                  discovered \cup {nx}),
                 discovered \cup {nx}, finished, out)
          ELSE DfsPostOrder(values, SubSeq(stack, 1, Len(stack) - 1),
                 discovered, finished \cup {nx},
                 IF nx \in finished THEN out ELSE Append(out, nx))

State(edge, bits, weight) == [edge |-> edge, bits |-> bits, weight |-> weight]

\* an ordering that prefers more bits and then the smaller weight
StateGreater_less_weight(l, r) ==
  \/ l.bits > r.bits
  \/ l.bits = r.bits /\ l.weight < r.weight

\* the ordering heuristic_path gives to max_by
StateGreater(l, r) ==
  \/ l.bits > r.bits
  \/ l.bits = r.bits /\ l.weight > r.weight

RECURSIVE MaxBy(_, _, _)
\* Iterator::max_by: of several equally large elements the last one
MaxBy(best, cands, i) ==
  IF i > Len(cands) THEN best
  ELSE MaxBy(IF StateGreater(best, cands[i]) THEN best ELSE cands[i],
             cands, i + 1)

RECURSIVE HeuristicStates(_, _, _, _)
HeuristicStates(values, order, i, states) ==
  IF i > Len(order) THEN states
  ELSE LET n == order[i]
           last_bits == values.nw[n].bits
           live == SelectSeq(value_edges(values, n),
                             LAMBDA e : values.ew[e].t \in DOMAIN states)
           cands == MapSeq(live,
                      LAMBDA e :
                        State(Some(e),
                              last_bits + states[values.ew[e].t].bits,
                              values.ew[e].weight
                                + states[values.ew[e].t].weight))
       IN HeuristicStates(values, order, i + 1,
            IF cands = <<>> THEN states
            ELSE [m \in DOMAIN states \cup {n} |->
                    IF m = n THEN MaxBy(cands[1], cands, 2) ELSE states[m]])

\* the RandomState a HashMap::new() may draw: it decides the order in which
\* the map would be iterated, and nothing of what get and insert do
RandomState == {0, 1}

Reverse(s) == [i \in 1..Len(s) |-> s[Len(s) + 1 - i]]

\* heuristic_path that visits the nodes in the order the map of states
\* would be iterated in rather than in post-order
heuristic_path_map_order(values, first, last, hasher) ==
  [states |-> HeuristicStates(values,
                IF hasher = 0
                THEN DfsPostOrder(values, <<first>>, {}, {}, <<>>)
                ELSE Reverse(DfsPostOrder(values, <<first>>, {}, {}, <<>>)),
                1, [m \in {last} |-> State(None, 0, 0)]),
   first |-> first]

\* heuristic_path: the table of states, and the node iteration starts at;
\* states is a HashMap built with hasher, read and written by key only
heuristic_path(values, first, last, hasher) ==
  [states |-> HeuristicStates(values,
                DfsPostOrder(values, <<first>>, {}, {}, <<>>), 1,
                [m \in {last} |-> State(None, 0, 0)]),
   first |-> first]

RECURSIVE HeuristicPathIter(_, _, _, _)
\* HeuristicPathIter::next until it returns None; fuel bounds the walk
HeuristicPathIter(values, states, node, fuel) ==
  IF fuel = 0 \/ node \notin DOMAIN states \/ states[node].edge = None
  THEN <<>>
  ELSE LET edge == Unwrap(states[node].edge)
       IN <<edge>> \o HeuristicPathIter(values, states, values.ew[edge].t,
                                        fuel - 1)

RECURSIVE MinBy_last(_, _, _)
\* a min_by that returns the last of several equally small elements
MinBy_last(best, cands, i) ==
  IF i > Len(cands) THEN best
  ELSE MinBy_last(IF cands[i][2] <= best[2] THEN cands[i] ELSE best,
                  cands, i + 1)

RECURSIVE MinBy(_, _, _)
\* Iterator::min_by on (edge, score): of several equally small the first one
MinBy(best, cands, i) ==
  IF i > Len(cands) THEN best
  ELSE MinBy(IF cands[i][2] < best[2] THEN cands[i] ELSE best, cands, i + 1)

\* Closure::get_branch
get_branch(self, graph, edges, first_node, last_node, x, hasher) ==
  LET values == value_graph(graph, x, edges)
      path == heuristic_path(values, first_node, last_node, hasher)
      chain == HeuristicPathIter(values, path.states, path.first,
                                 Len(graph.nodes) + 1)
      open == SelectSeq(chain, LAMBDA e : One - values.ew[e].weight > EPS)
      scored == MapSeq(open,
                       LAMBDA e : <<e, Abs(values.ew[e].weight - Half)>>)
  IN [self |-> self,
      ret |-> IF scored = <<>> THEN None
              ELSE Some(<<VarRefsGet(edges, MinBy(scored[1], scored, 2)[1]),
                          "Up">>),
      out |-> <<>>]

(***************************************************************************)
(* The lazy-cut step of the optimize of ll.rs                              *)
(***************************************************************************)
\* EdgeFiltered that keeps an edge only when its value is above one half
ll_connected_above_half(graph, x, edges) ==
  LET kept == SelectSeq(graph.edges, LAMBDA e : x[VarRefsGet(edges, e)] > Half)
  IN [nodes |-> graph.nodes,
      nw    |-> graph.nw,
      edges |-> kept,
      ew    |-> [e \in Range(kept) |-> [s |-> graph.ew[e].s, t |-> graph.ew[e].t, weight |-> x[VarRefsGet(edges, e)]]]]

\* EdgeFiltered::from_fn(graph, |e| problem.get_value(..) >= EPS)
ll_connected(graph, x, edges) ==
  LET kept == SelectSeq(graph.edges, LAMBDA e : x[VarRefsGet(edges, e)] >= EPS)
  IN [nodes |-> graph.nodes,
      nw    |-> graph.nw,
      edges |-> kept,
      ew    |-> [e \in Range(kept) |-> [s |-> graph.ew[e].s, t |-> graph.ew[e].t, weight |-> x[VarRefsGet(edges, e)]]]]

RECURSIVE ll_dfs(_, _, _, _, _)
\* the loop over Dfs::next that adds up bits and breaks once there are
\* required_bits of them
ll_dfs(connected, stack, discovered, bits, required_bits) ==
  IF stack = <<>> THEN [discovered |-> discovered, bits |-> bits]
  ELSE LET n == stack[Len(stack)]
           rest == SubSeq(stack, 1, Len(stack) - 1)
       IN IF n \in discovered
          THEN ll_dfs(connected, rest, discovered, bits, required_bits)
          ELSE IF bits + connected.nw[n].bits >= required_bits
               THEN [discovered |-> discovered \cup {n}, bits |-> bits + connected.nw[n].bits]
               ELSE ll_dfs(connected,
                           PushUndiscovered(connected, rest, value_edges(connected, n), discovered \cup {n}),
                           discovered \cup {n}, bits + connected.nw[n].bits, required_bits)

\* the Reason::AddLazyExprs arm of ll.rs: the cut it adds, if it adds one
ll_add_lazy_exprs(graph, edges, first_node, required_bits, x) ==
  LET dfs == ll_dfs(ll_connected(graph, x, edges), <<first_node>>, {}, 0, required_bits)
  IN IF dfs.bits < required_bits
     THEN Some(Expr(Name("cut", SeqAsc(dfs.discovered)), Lower(1),
                    Concat(MapSeq(SeqAsc(dfs.discovered),
                      LAMBDA n :
                        MapSeq(SelectSeq(edges_directed_out(graph, n), LAMBDA e : graph.ew[e].t \notin dfs.discovered),
                               LAMBDA e : Term(VarRefsGet(edges, e), 1))))))
     ELSE None

(***************************************************************************)
(* Solver Adapter (glpk/src/lib.rs): callback dispatch and result mapping  *)
(***************************************************************************)
ReasonCodes ==
  {"GLP_IROWGEN", "GLP_IBINGO", "GLP_IHEUR", "GLP_ICUTGEN", "GLP_IBRANCH",
   "GLP_ISELECT", "GLP_IPREPRO"}

\* c_callback that drops what the lazy hook returns
c_callback_drop_expr(reason, self, problem, graph, edges, first_node, last_node, required_bits, x, hasher) ==
  CASE reason = "GLP_IROWGEN" ->
         LET r == get_lazy_expr(self, graph, edges, first_node, last_node,
                                required_bits, x)
         IN [hooks |-> <<"get_lazy_expr">>, self |-> r.self, ret |-> r.ret,
             out |-> r.out, problem |-> problem]
    [] reason = "GLP_IHEUR" ->
         LET r == get_heuristic_solution(self)
         IN [hooks |-> <<"get_heuristic_solution">>, self |-> r.self,
             ret |-> r.ret, out |-> r.out, problem |-> problem]
    [] reason = "GLP_IBRANCH" ->
         LET r == get_branch(self, graph, edges, first_node, last_node, x,
                             hasher)
         IN [hooks |-> <<"get_branch">>, self |-> r.self, ret |-> r.ret,
             out |-> r.out, problem |-> problem]
    [] reason = "GLP_IBINGO" ->
         LET r == new_best_solution(self, graph, edges, x)
         IN [hooks |-> <<"new_best_solution">>, self |-> r.self,
             ret |-> r.ret, out |-> r.out, problem |-> problem]
    [] OTHER ->
         [hooks |-> <<>>, self |-> self, ret |-> None, out |-> <<>>,
          problem |-> problem]

\* c_callback that adds the row of the lazy hook twice
c_callback_add_twice(reason, self, problem, graph, edges, first_node, last_node, required_bits, x, hasher) ==
  CASE reason = "GLP_IROWGEN" ->
         LET r == get_lazy_expr(self, graph, edges, first_node, last_node,
                                required_bits, x)
         IN [hooks |-> <<"get_lazy_expr">>, self |-> r.self, ret |-> r.ret,
             out |-> r.out,
             problem |-> IF r.ret # None
                         THEN add_expr(add_expr(problem, Unwrap(r.ret)),
                                       Unwrap(r.ret))
                         ELSE problem]
    [] reason = "GLP_IHEUR" ->
         LET r == get_heuristic_solution(self)
         IN [hooks |-> <<"get_heuristic_solution">>, self |-> r.self,
             ret |-> r.ret, out |-> r.out, problem |-> problem]
    [] reason = "GLP_IBRANCH" ->
         LET r == get_branch(self, graph, edges, first_node, last_node, x,
                             hasher)
         IN [hooks |-> <<"get_branch">>, self |-> r.self, ret |-> r.ret,
             out |-> r.out, problem |-> problem]
    [] reason = "GLP_IBINGO" ->
         LET r == new_best_solution(self, graph, edges, x)
         IN [hooks |-> <<"new_best_solution">>, self |-> r.self,
             ret |-> r.ret, out |-> r.out, problem |-> problem]
    [] OTHER ->
         [hooks |-> <<>>, self |-> self, ret |-> None, out |-> <<>>,
          problem |-> problem]

\* c_callback, for the callback object of optimize: the hooks it calls, the
\* callback object and the problem when it returns
c_callback(reason, self, problem, graph, edges, first_node, last_node, required_bits, x, hasher) ==
  CASE reason = "GLP_IROWGEN" ->
         LET r == get_lazy_expr(self, graph, edges, first_node, last_node,
                                required_bits, x)
         IN [hooks |-> <<"get_lazy_expr">>, self |-> r.self, ret |-> r.ret,
             out |-> r.out,
             problem |-> IF r.ret # None
                         THEN add_expr(problem, Unwrap(r.ret))
                         ELSE problem]
    [] reason = "GLP_IHEUR" ->
         LET r == get_heuristic_solution(self)
         IN [hooks |-> <<"get_heuristic_solution">>, self |-> r.self,
             ret |-> r.ret, out |-> r.out, problem |-> problem]
    [] reason = "GLP_IBRANCH" ->
         LET r == get_branch(self, graph, edges, first_node, last_node, x,
                             hasher)
         IN [hooks |-> <<"get_branch">>, self |-> r.self, ret |-> r.ret,
             out |-> r.out, problem |-> problem]
    [] reason = "GLP_IBINGO" ->
         LET r == new_best_solution(self, graph, edges, x)
         IN [hooks |-> <<"new_best_solution">>, self |-> r.self,
             ret |-> r.ret, out |-> r.out, problem |-> problem]
    [] OTHER ->
         [hooks |-> <<>>, self |-> self, ret |-> None, out |-> <<>>,
          problem |-> problem]

ReturnCodes ==
  {"0", "GLP_EBADB", "GLP_EBOUND", "GLP_EROOT", "GLP_ENOPFS", "GLP_ENODFS",
   "GLP_EFAIL", "GLP_EMIPGAP", "GLP_ETMLIM", "GLP_ESTOP", "GLP_EITLIM"}

\* optimize_mip that takes the time limit for a success
optimize_mip_result_timeout_ok(err) ==
  CASE err \in {"0", "GLP_ETMLIM"} -> "Ok"
    [] err = "GLP_EBOUND" -> "Err(InvalidBounds)"
    [] err = "GLP_EROOT" -> "Err(NoInitSolution)"
    [] err = "GLP_ENOPFS" -> "Err(NotPrimalFeasible)"
    [] err = "GLP_ENODFS" -> "Err(NotDualFeasible)"
    [] err = "GLP_EFAIL" -> "Err(SolverFailed)"
    [] err = "GLP_EMIPGAP" -> "Err(HitMipGapLimit)"
    [] err = "GLP_ESTOP" -> "Err(Stopped)"
    [] OTHER -> "Err(Unknown)"

\* Prob::optimize_mip: the match on what glp_intopt returned
optimize_mip_result(err) ==
  CASE err = "0" -> "Ok"
    [] err = "GLP_EBOUND" -> "Err(InvalidBounds)"
    [] err = "GLP_EROOT" -> "Err(NoInitSolution)"
    [] err = "GLP_ENOPFS" -> "Err(NotPrimalFeasible)"
    [] err = "GLP_ENODFS" -> "Err(NotDualFeasible)"
    [] err = "GLP_EFAIL" -> "Err(SolverFailed)"
    [] err = "GLP_EMIPGAP" -> "Err(HitMipGapLimit)"
    [] err = "GLP_ETMLIM" -> "Err(Timeout)"
    [] err = "GLP_ESTOP" -> "Err(Stopped)"
    [] OTHER -> "Err(Unknown)"

(***************************************************************************)
(* optimize (opt.rs), up to the call of optimize_mip                       *)
(***************************************************************************)
NodesDense(graph) == \A i \in 1..Len(graph.nodes) : graph.nodes[i] = i - 1
EdgesDense(graph) == \A i \in 1..Len(graph.edges) : graph.edges[i] = i - 1

\* the checks of optimize without the one on the node indices
optimize_checks_nodes_unchecked(graph) ==
  IF ~EdgesDense(graph)
  THEN Some("graph edge indicies were not dense")
  ELSE IF Len(externals_in(graph)) # 1
  THEN Some("exactly one source node")
  ELSE IF Len(externals_out(graph)) # 1
  THEN Some("exactly one target node")
  ELSE None

\* the panics of optimize before Problem::new, in the order of the code
optimize_checks(graph) ==
  IF ~NodesDense(graph)
  THEN Some("graph node indicies were not dense")
  ELSE IF ~EdgesDense(graph)
  THEN Some("graph edge indicies were not dense")
  ELSE IF Len(externals_in(graph)) # 1
  THEN Some("exactly one source node")
  ELSE IF Len(externals_out(graph)) # 1
  THEN Some("exactly one target node")
  ELSE None

\* the problem optimize builds: the edge variables, then the rows
build_problem(graph, required_bits, first, last) ==
  LET p0 == NewProblem
      specs == edge_vars(graph)
      es == alloc_vars(p0, Len(specs))
      p1 == add_vars(p0, specs)
      p2 == add_exprs(p1, flow_exprs(graph, es, first, last))
      p3 == add_exprs(p2, capacity_exprs(graph, es, first, last))
      p4 == add_exprs(p3, dominator_exprs(graph, es, first))
      p5 == add_exprs(p4, no_2_cycles(graph, es))
      p6 == add_expr(p5, required_bits_expr(graph, es, required_bits))
      p7 == add_expr(p6, oneof_expr(graph, es))
      p8 == add_expr(p7, total_keys_expr(graph, es))
  IN [problem |-> p8, edges |-> es]

(***************************************************************************)
(* The graphs and thresholds optimize is run on                            *)
(***************************************************************************)
MaxCallbacks == 4

Plain(bits) == Node(bits, 0, "free", 0)
Walk(s, t, tiles) == Edge(s, t, Distance(tiles, tiles, tiles), "free")

\* source -> mid -> sink
Chain3(b0, c1, t1, t2) ==
  MkGraph(<<Plain(b0), Node(10, 0, c1, t1), Node(0, 0, "free", t2)>>,
          <<Walk(0, 1, 1), Walk(1, 2, 2)>>)

\* two disjoint routes: the cheap one by node 1, the costly one by node 2
TwoPaths(b0, b1, b2, c2) ==
  MkGraph(<<Plain(b0), Plain(b1), Node(b2, 0, c2, 0), Plain(0)>>,
          <<Walk(0, 1, 1), Walk(1, 3, 1), Walk(0, 2, 2), Walk(2, 3, 2)>>)

\* the direct way runs into a lock, the key is on a detour
KeyLock(b1) ==
  MkGraph(<<Plain(0), Node(b1, 1, "free", 0), Node(0, 0, "lock", 0),
            Plain(0)>>,
          <<Walk(0, 2, 1), Walk(0, 1, 1), Walk(1, 2, 1), Walk(2, 3, 1)>>)

\* the lock comes first on the only way, the key after it
LockFirst ==
  MkGraph(<<Plain(0), Node(0, 0, "lock", 0), Node(0, 1, "free", 0),
            Plain(0)>>,
          <<Walk(0, 1, 1), Walk(1, 2, 1), Walk(2, 3, 1)>>)

\* source -> sink, and a cycle 2 -> 3 -> 4 -> 2 the source does not reach
Cycle3(c1, k2, b2, tiles) ==
  MkGraph(<<Plain(0), Node(0, 0, c1, 0), Node(b2, k2, "free", 0), Plain(0),
            Plain(0)>>,
          <<Walk(0, 1, 1), Walk(2, 3, tiles), Walk(3, 4, tiles),
            Walk(4, 2, tiles)>>)

\* the direct edge has no bits; the way round through 1 and 2 has them, and
\* 1 <-> 2 is a cycle the entry reaches in the graph
SideLoop(b1) ==
  MkGraph(<<Plain(0), Plain(b1), Plain(0), Plain(0)>>,
          <<Walk(0, 3, 1), Walk(0, 1, 1), Walk(1, 2, 1), Walk(2, 1, 1),
            Walk(2, 3, 1)>>)

\* the bits are on the cycle 2 <-> 3, which the entry and node 1 both lead
\* into; the direct edge and the way through 1 pass it by
TwoGates(b3) ==
  MkGraph(<<Plain(0), Plain(0), Plain(0), Plain(b3), Plain(0)>>,
          <<Walk(0, 4, 1), Walk(0, 1, 1), Walk(1, 4, 1), Walk(0, 2, 1),
            Walk(1, 3, 1), Walk(2, 3, 1), Walk(3, 2, 1), Walk(3, 4, 1)>>)

\* a two-cycle 1 <-> 2 beside the direct edge; extra more edges 2 -> 1
TwoCycle(extra) ==
  MkGraph(<<Plain(0), Plain(0), Plain(0), Plain(0)>>,
          <<Walk(0, 3, 3), Walk(0, 1, 1), Walk(1, 2, 0), Walk(2, 1, 0)>>
          \o [i \in 1..extra |-> Walk(2, 1, 0)]
          \o <<Walk(2, 3, 1)>>)

\* a loop 1 -> 2 -> 1 on the only way from the source to the sink
Loop(b2) ==
  MkGraph(<<Plain(0), Plain(0), Plain(b2), Plain(0)>>,
          <<Walk(0, 1, 1), Walk(1, 2, 1), Walk(2, 1, 1), Walk(1, 3, 1)>>)

SecretDoor(s, t, tiles) == Edge(s, t, Distance(tiles, tiles, tiles), "secret")

\* a secret door from the source past node 1, the gateway of node 2
SecretShortcut ==
  MkGraph(<<Plain(0), Plain(0), Plain(0), Plain(0)>>,
          <<Walk(0, 1, 1), Walk(1, 2, 1), Walk(2, 3, 1), SecretDoor(0, 2, 1)>>)

\* node 2 is entered by a secret door only
SecretRoom ==
  MkGraph(<<Plain(0), Plain(0), Plain(10), Plain(0)>>,
          <<Walk(0, 1, 1), Walk(1, 3, 1), SecretDoor(1, 2, 1), Walk(2, 3, 1)>>)

\* graphs optimize must refuse
TwoSources == MkGraph(<<Plain(0), Plain(0), Plain(0)>>,
                      <<Walk(0, 2, 1), Walk(1, 2, 1)>>)
TwoSinks == MkGraph(<<Plain(0), Plain(0), Plain(0)>>,
                    <<Walk(0, 1, 1), Walk(0, 2, 1)>>)
NoSource == MkGraph(<<Plain(0), Plain(0), Plain(0)>>,
                    <<Walk(0, 1, 1), Walk(1, 0, 1), Walk(1, 2, 1)>>)
NoSink == MkGraph(<<Plain(0), Plain(0), Plain(0)>>,
                  <<Walk(0, 1, 1), Walk(1, 2, 1), Walk(2, 1, 1)>>)
NodeGap ==
  remove_node(MkGraph(<<Plain(0), Plain(0), Plain(0), Plain(0)>>,
                      <<Walk(0, 2, 1), Walk(2, 3, 1)>>), 1)
EdgeGap ==
  remove_edge(MkGraph(<<Plain(0), Plain(0), Plain(0)>>,
                      <<Walk(0, 1, 1), Walk(0, 1, 1), Walk(1, 2, 1)>>), 0)

Graphs ==
  {Chain3(b0, c1, t1, t2) :
     b0 \in {0 - 1, 0}, c1 \in {"free", "lock"}, t1 \in {0, 3}, t2 \in {0, 4}}
  \cup {TwoPaths(b0, b1, b2, c2) :
          b0 \in {0, 5}, b1 \in {0, 5}, b2 \in {5, 10}, c2 \in {"free", "lock"}}
  \cup {KeyLock(b1) : b1 \in {0, 10}}
  \cup {Cycle3(c1, k2, b2, tiles) :
          c1 \in {"free", "lock"}, k2 \in {0, 1}, b2 \in {0, 10},
          tiles \in {0, 1}}
  \cup {TwoCycle(extra) : extra \in {0, 1}}
  \cup {Loop(b2) : b2 \in {0, 10}}
  \cup {SecretShortcut, SecretRoom, LockFirst, SideLoop(10), TwoGates(10)}
  \cup {TwoSources, TwoSinks, NoSource, NoSink, NodeGap, EdgeGap}

RequiredBits == {0, 5, 10}

\* the values a variable takes in the relaxations the solver is shown with
LPValues == {0, Half, One}

(***************************************************************************)
(* Room data loading (rooms.rs): load, verify_unique_names, as_graph       *)
(***************************************************************************)
\* NodeIndex::end, the index of a RoomNode that was given no graph node
NodeIndexEnd == 0 - 1

\* the fields of RoomNode that load reads to name, warn and connect
RoomNode(name, to, time) == [name |-> name, to |-> to, time |-> time, index |-> NodeIndexEnd]
Room(name, nodes) == [name |-> name, nodes |-> nodes]

is_actual(node) == node.time # "Src"
is_source(node) == node.time \notin {"Src", "End"}
is_target(node) == node.time \notin {"Src", "Start"}

\* Itertools::tuple_combinations of the positions 1..n, as pairs in order
TupleCombinations(n) == Concat([i \in 1..n |-> [k \in 1..(n - i) |-> <<i, i + k>>]])

\* verify_unique_room_names: the warnings it logs
verify_unique_room_names(rooms) ==
  MapSeq(SelectSeq(TupleCombinations(Len(rooms)), LAMBDA p : rooms[p[1]].name = rooms[p[2]].name),
         LAMBDA p : [what |-> "multiple definitions for room", room |-> rooms[p[1]].name, node |-> ""])

\* verify_unique_inner_names: the warnings it logs
verify_unique_inner_names(room) ==
  MapSeq(SelectSeq(TupleCombinations(Len(room.nodes)), LAMBDA p : room.nodes[p[1]].name = room.nodes[p[2]].name),
         LAMBDA p : [what |-> "multiple definitions for node", room |-> room.name, node |-> room.nodes[p[1]].name])

\* verify_unique_names: the warnings it logs, and nothing else
verify_unique_names(rooms) ==
  verify_unique_room_names(rooms) \o Concat(MapSeq(rooms, LAMBDA r : verify_unique_inner_names(r)))

\* Graph::new
EmptyGraph == [nodes |-> <<>>, edges |-> <<>>]

RECURSIVE add_room_nodes(_, _, _)
\* add_room_nodes: every actual node of room gets a graph node and its index
add_room_nodes(graph, room, i) ==
  IF i > Len(room.nodes) THEN [graph |-> graph, room |-> room]
  ELSE IF is_actual(room.nodes[i])
       THEN add_room_nodes([graph EXCEPT !.nodes = Append(@, [room |-> room.name, name |-> room.nodes[i].name])],
                           [room EXCEPT !.nodes[i].index = Len(graph.nodes)], i + 1)
       ELSE add_room_nodes(graph, room, i + 1)

RECURSIVE AddAllRoomNodes(_, _, _)
\* rooms.iter_mut().for_each(add_room_nodes)
AddAllRoomNodes(graph, rooms, i) ==
  IF i > Len(rooms) THEN [graph |-> graph, rooms |-> rooms]
  ELSE LET r == add_room_nodes(graph, rooms[i], 1)
       IN AddAllRoomNodes(r.graph, [rooms EXCEPT ![i] = r.room], i + 1)

\* Iterator::find: the first element of s that p holds for, as an Option
FindFirst(s, hits) == IF hits = {} THEN None ELSE Some(s[CHOOSE i \in hits : \A j \in hits : i <= j])

\* add_edges: an edge from src_i to every target node of room but exclude
add_edges(graph, src_i, room, exclude) ==
  [graph EXCEPT !.edges = @ \o MapSeq(SelectSeq(room.nodes, LAMBDA n : is_target(n) /\ n.index # exclude),
                                      LAMBDA n : [s |-> src_i, t |-> n.index])]

RECURSIVE add_room_edges(_, _, _, _)
\* add_room_edges: the edges of the sources of room from the i-th on; a door
\* without its room or its node panics
add_room_edges(graph, rooms, room, i) ==
  IF i > Len(room.nodes) THEN [graph |-> graph, panic |-> None]
  ELSE IF ~is_source(room.nodes[i]) THEN add_room_edges(graph, rooms, room, i + 1)
  ELSE LET source == room.nodes[i]
           to_name == IF source.to # None THEN Unwrap(source.to) ELSE source.name
           to == FindFirst(rooms, {k \in 1..Len(rooms) : rooms[k].name = to_name})
       IN IF source.to # None /\ to = None
          THEN [graph |-> graph, panic |-> Some("failed to find room")]
          ELSE IF to # None
          THEN LET at_name == IF source.to # None THEN source.name ELSE room.name
                   at == FindFirst(Unwrap(to).nodes, {k \in 1..Len(Unwrap(to).nodes) : Unwrap(to).nodes[k].name = at_name})
               IN IF at = None
                  THEN [graph |-> graph, panic |-> Some("failed to find node")]
                  ELSE add_room_edges(add_edges(graph, source.index, Unwrap(to), Unwrap(at).index), rooms, room, i + 1)
          ELSE add_room_edges(add_edges(graph, source.index, room, source.index), rooms, room, i + 1)

\* the room data load is run on: room A with a door or passage and an item,
\* and a second room
RoomData(r2, n1, to1, n2a, n2b) ==
  <<Room("A", <<RoomNode(n1, to1, "Start"), RoomNode("x", None, "Unknown")>>),
    Room(r2, <<RoomNode(n2a, None, "Unknown"), RoomNode(n2b, None, "End")>>)>>

RoomFiles ==
  {RoomData(r2, n1, to1, n2a, n2b) :
     r2 \in {"A", "B"}, n1 \in {"d", "x", "B"}, to1 \in {None, Some("B"), Some("C")},
     n2a \in {"d", "A"}, n2b \in {"d", "e"}}

\* load has not been called
NotLoading == [pc |-> "idle", rooms |-> <<>>, graph |-> EmptyGraph, warnings |-> <<>>, next |-> 0, panic |-> None]

(***************************************************************************)
(* One call of optimize(graph, required_bits)                              *)
(***************************************************************************)
VARIABLES
  graph,          \* the argument graph
  required_bits,  \* the argument required_bits
  pc,             \* "start", "solving", "done" or "panicked"
  panic,          \* the message optimize panicked with, if it did
  problem,        \* the solver's problem object
  edges,          \* VarRefs of the edge variables
  first_node,     \* Option<NodeIndex>
  last_node,      \* Option<NodeIndex>
  closure,        \* Option<Closure>
  phase,          \* where glp_intopt is: "root", "lp", "rowgen", "accepted"
  cur,            \* glp_get_col_prim: the relaxation's current values
  mip,            \* glp_mip_col_val: the best integral solution, if any
  calls,          \* number of callback invocations so far
  last_call,      \* the latest callback: reason, hooks run, value returned
  result,         \* what glp_intopt and optimize_mip returned, once they have
  rendered,       \* what the progress sink was asked to render
  loader          \* rooms::load: its position, rooms, graph and warnings

vars == <<graph, required_bits, pc, panic, problem, edges, first_node,
          last_node, closure, phase, cur, mip, calls, last_call, result,
          rendered, loader>>

NoCall == [reason |-> "", hooks |-> <<>>, ret |-> None]

Init ==
  /\ graph \in Graphs
  /\ required_bits \in RequiredBits
  /\ pc = "start"
  /\ panic = None
  /\ problem = NoProblem
  /\ edges = [first |-> 0, len |-> 0]
  /\ first_node = None
  /\ last_node = None
  /\ closure = None
  /\ phase = "root"
  /\ cur = <<>>
  /\ mip = None
  /\ calls = 0
  /\ last_call = NoCall
  /\ result = None
  /\ rendered = <<>>
  /\ loader = NotLoading

\* optimize from its entry to the call of optimize_mip; fs_ok tells whether
\* the file system lets Renderer::try_init succeed
optimize_begin(fs_ok) ==
  /\ pc = "start"
  /\ LET failed == optimize_checks(graph)
     IN IF failed # None
        THEN /\ pc' = "panicked"
             /\ panic' = failed
             /\ UNCHANGED <<problem, edges, first_node, last_node, closure>>
        ELSE LET first == externals_in(graph)[1]
                 last == externals_out(graph)[1]
                 built == build_problem(graph, required_bits, first, last)
                 renderer == RendererNew("rendered", fs_ok)
             IN /\ first_node' = Some(first)
                /\ last_node' = Some(last)
                /\ problem' = built.problem
                /\ edges' = built.edges
                /\ IF renderer = None
                   THEN /\ pc' = "panicked"
                        /\ panic' = Some("Renderer::new: unwrap on None")
                        /\ closure' = None
                   ELSE /\ pc' = "solving"
                        /\ panic' = None
                        /\ closure' = Some(NewClosure(Unwrap(renderer)))
  /\ UNCHANGED <<graph, required_bits, phase, cur, mip, calls, last_call,
                 result, rendered, loader>>

Assignments == [1..Len(problem.vars) -> LPValues]
IntAssignments == [1..Len(problem.vars) -> {0, One}]
Integral(x) == \A i \in DOMAIN x : x[i] \in {0, One}

\* x would improve on the best integral solution found so far
Improves(x) ==
  IF mip = None THEN TRUE
  ELSE Objective(problem.vars, x) < Objective(problem.vars, Unwrap(mip))

\* glp_intopt solves the relaxation of the node it works on: any values
\* within the rows of the problem that the bound does not prune
SolveRelaxation ==
  /\ pc = "solving"
  /\ phase \in {"root", "lp"}
  /\ calls < MaxCallbacks
  /\ \E x \in Assignments :
       /\ SatAll(problem.rows, x)
       /\ Improves(x)
       /\ cur' = x
  /\ phase' = "rowgen"
  /\ UNCHANGED <<graph, required_bits, pc, panic, problem, edges, first_node,
                 last_node, closure, mip, calls, last_call, result, rendered,
                 loader>>

\* the reasons glp_intopt may call back with in each phase
ReasonAllowed(reason) ==
  CASE reason = "GLP_IROWGEN" -> phase = "rowgen"
    [] reason = "GLP_IBINGO" -> phase = "accepted" /\ Integral(cur)
    [] reason \in {"GLP_IBRANCH", "GLP_IHEUR", "GLP_ICUTGEN"} ->
         phase = "accepted" /\ ~Integral(cur)
    [] OTHER -> phase = "lp"

\* glp_intopt calls c_callback; the writes of the sink succeed or not, and
\* the maps the hooks build hash with hasher
Callback(reason, fs_ok, hasher) ==
  /\ pc = "solving"
  /\ calls < MaxCallbacks
  /\ ReasonAllowed(reason)
  /\ LET r == c_callback(reason, Unwrap(closure), problem, graph, edges,
                         Unwrap(first_node), Unwrap(last_node),
                         required_bits, cur, hasher)
     IN /\ closure' = Some(r.self)
        /\ problem' = r.problem
        /\ last_call' = [reason |-> reason, hooks |-> r.hooks, ret |-> r.ret]
        /\ rendered' =
             IF r.out = <<>> THEN rendered
             ELSE RendererRender(rendered, r.out[1].filename,
                                 r.out[1].values, fs_ok)
        /\ (r.out = <<>> => fs_ok)
        /\ phase' = CASE reason = "GLP_IROWGEN" ->
                           IF r.ret # None THEN "lp" ELSE "accepted"
                      [] reason \in {"GLP_IBINGO", "GLP_IBRANCH"} -> "lp"
                      [] OTHER -> phase
        /\ mip' = IF reason = "GLP_IBINGO" THEN Some(cur) ELSE mip
  /\ calls' = calls + 1
  /\ UNCHANGED <<graph, required_bits, pc, panic, edges, first_node,
                 last_node, cur, result, loader>>

\* the search is over: nothing integral within the rows improves on mip
Exhausted ==
  ~\E y \in IntAssignments : SatAll(problem.rows, y) /\ Improves(y)

\* the codes glp_intopt can return with in the current state
CanReturn(err) ==
  /\ phase \in {"root", "lp"}
  /\ err = "0" => phase = "lp" /\ Exhausted

\* glp_get_int_value of every variable: zero when no solution was stored
IntValues == IF mip = None THEN [i \in 1..Len(problem.vars) |-> 0]
             ELSE Unwrap(mip)

\* glp_intopt returns err; optimize_mip maps it, optimize unwraps the
\* result and renders the BEST graph
optimize_end(err, fs_ok) ==
  /\ pc = "solving"
  /\ CanReturn(err)
  /\ result' = Some([err |-> err, value |-> optimize_mip_result(err)])
  /\ IF optimize_mip_result(err) # "Ok"
     THEN /\ pc' = "panicked"
          /\ panic' = Some("optimize_mip: unwrap on Err")
          /\ fs_ok
          /\ UNCHANGED <<closure, rendered>>
     ELSE LET self == Unwrap(closure)
              render == self.render + 1
          IN /\ closure' = Some([self EXCEPT !.render = render])
             /\ rendered' = RendererRender(rendered, Name("BEST", <<render>>),
                              value_graph_int(graph, IntValues, edges), fs_ok)
             /\ pc' = "done"
             /\ panic' = None
  /\ UNCHANGED <<graph, required_bits, problem, edges, first_node, last_node,
                 phase, cur, mip, calls, last_call, loader>>

Next ==
  \/ \E fs_ok \in BOOLEAN : optimize_begin(fs_ok)
  \/ SolveRelaxation
  \/ \E reason \in ReasonCodes, fs_ok \in BOOLEAN, hasher \in RandomState :
       Callback(reason, fs_ok, hasher)
  \/ \E err \in ReturnCodes, fs_ok \in BOOLEAN : optimize_end(err, fs_ok)

Spec == Init /\ [][Next]_vars

(***************************************************************************)
(* One call of rooms::load on a file that parsed                           *)
(***************************************************************************)
optimize_vars == <<graph, required_bits, pc, panic, problem, edges, first_node, last_node, closure, phase, cur, mip, calls, last_call, result, rendered>>

LoadInit ==
  /\ loader \in {[NotLoading EXCEPT !.pc = "start", !.rooms = rooms] : rooms \in RoomFiles}
  /\ graph = LockFirst
  /\ required_bits = 0
  /\ pc = "start"
  /\ panic = None
  /\ problem = NoProblem
  /\ edges = [first |-> 0, len |-> 0]
  /\ first_node = None
  /\ last_node = None
  /\ closure = None
  /\ phase = "root"
  /\ cur = <<>>
  /\ mip = None
  /\ calls = 0
  /\ last_call = NoCall
  /\ result = None
  /\ rendered = <<>>

\* load: verify_unique_names(&rooms)
load_verify ==
  /\ loader.pc = "start"
  /\ loader' = [loader EXCEPT !.pc = "verified", !.warnings = @ \o verify_unique_names(loader.rooms)]
  /\ UNCHANGED optimize_vars

\* as_graph: the nodes of every room
as_graph_nodes ==
  /\ loader.pc = "verified"
  /\ LET r == AddAllRoomNodes(EmptyGraph, loader.rooms, 1)
     IN loader' = [loader EXCEPT !.pc = "edges", !.graph = r.graph, !.rooms = r.rooms, !.next = 1]
  /\ UNCHANGED optimize_vars

\* as_graph: the edges of the next room, and the return once every room has
\* had its turn
as_graph_edges ==
  /\ loader.pc = "edges"
  /\ LET r == add_room_edges(loader.graph, loader.rooms, loader.rooms[loader.next], 1)
     IN loader' = IF r.panic # None
                  THEN [loader EXCEPT !.pc = "panicked", !.panic = r.panic]
                  ELSE [loader EXCEPT !.graph = r.graph, !.next = @ + 1,
                                      !.pc = IF loader.next = Len(loader.rooms) THEN "done" ELSE "edges"]
  /\ UNCHANGED optimize_vars

LoadNext == load_verify \/ as_graph_nodes \/ as_graph_edges

LoadSpec == LoadInit /\ [][LoadNext]_vars

(***************************************************************************)
(* Vocabulary of the properties                                            *)
(***************************************************************************)
Solving == pc = "solving"
Done == pc = "done"
First == Unwrap(first_node)
Last == Unwrap(last_node)

\* the edges an assignment selects
Selected(x) == {e \in EdgeSet(graph) : x[VarRefsGet(edges, e)] = One}

\* the assignment that selects exactly the edges of es
Selecting(es) ==
  [i \in 1..Len(problem.vars) |->
     IF \E e \in es : VarRefsGet(edges, e) = i THEN One ELSE 0]

\* the rows added while the problem was built, and the cuts added since
BuildRows == SelectSeq(problem.rows, LAMBDA r : r.name.kind # "cut")
CutRows == SelectSeq(problem.rows, LAMBDA r : r.name.kind = "cut")

\* nodes reached from the entry along the edges of es
ReachedBy(es) == ReachVia(graph, es, {First})

\* es is one simple path from the entry to the goal and nothing else
IsSimplePath(es) ==
  /\ \A n \in NodeSet(graph) :
       /\ Cardinality({e \in es : graph.ew[e].s = n}) <= 1
       /\ Cardinality({e \in es : graph.ew[e].t = n}) <= 1
  /\ \A e \in es : graph.ew[e].t # First /\ graph.ew[e].s # Last
  /\ Last \in ReachedBy(es)
  /\ \A e \in es : graph.ew[e].s \in ReachedBy(es)

PathBits(es) == SumBits(graph.nw, ReachedBy(es))

AllBitsNonNegative == \A n \in NodeSet(graph) : graph.nw[n].bits >= 0

SimplePaths == {es \in SUBSET EdgeSet(graph) : IsSimplePath(es)}

\* the time of a route: frames of its edges and dwell times of their targets
RECURSIVE RouteTime(_)
RouteTime(es) ==
  IF es = {} THEN 0
  ELSE LET e == CHOOSE f \in es : TRUE
       IN get_frames(graph.ew[e]) + graph.nw[graph.ew[e].t].time
          + RouteTime(es \ {e})

(***************************************************************************)
(* C1..C10                                                                 *)
(***************************************************************************)
\* C1: on every graph with one source and one sink (and bits >= 0, as the
\* data model has them), every integral assignment optimize ends with as its
\* solution selects exactly the edges of one simple path from the source to
\* the sink whose nodes yield at least required_bits bits: no further edge
\* is selected, no disjoint cycle.
C1_SinglePathOrFailure ==
  (Done /\ AllBitsNonNegative /\ mip # None) =>
    /\ IsSimplePath(Selected(Unwrap(mip)))
    /\ PathBits(Selected(Unwrap(mip))) >= required_bits

\* C2: when the bits (all >= 0) of all nodes reachable from the entry are
\* fewer than required_bits, optimize never completes as a success that
\* renders BEST.
C2_TooFewBitsIsAnError ==
  (Done /\ AllBitsNonNegative) => PathBits(EdgeSet(graph)) >= required_bits

\* the latest callback was the lazy hook, and it returned no constraint
LazyHookReturnedNothing ==
  last_call.hooks = <<"get_lazy_expr">> => last_call.ret = None

\* C3 as claimed: with required_bits = 0 and no negative bits the lazy hook
\* never returns a constraint, no cut is ever added, and the solution that
\* optimize ends with is a minimum-cost path from the source to the sink.
C3_ZeroBitsShortestPath ==
  (required_bits = 0 /\ AllBitsNonNegative /\ pc \in {"solving", "done"}) =>
    /\ LazyHookReturnedNothing
    /\ CutRows = <<>>
    /\ Done =>
         /\ mip # None
         /\ Selected(Unwrap(mip)) \in SimplePaths
         /\ \A es \in SimplePaths :
              RouteTime(Selected(Unwrap(mip))) <= RouteTime(es)

\* C3 as amended: with required_bits = 0 and no negative bits the lazy hook
\* never returns a constraint, no cut is ever added, and the solution that
\* optimize ends with has the least objective value among the integral
\* assignments that satisfy the rows built with the problem.
C3_ZeroBitsNoCutLeastObjective ==
  (required_bits = 0 /\ AllBitsNonNegative /\ pc \in {"solving", "done"}) =>
    /\ LazyHookReturnedNothing
    /\ CutRows = <<>>
    /\ Done =>
         /\ mip # None
         /\ SatAll(BuildRows, Unwrap(mip))
         /\ \A y \in IntAssignments :
              SatAll(BuildRows, y) =>
                Objective(problem.vars, Unwrap(mip))
                  <= Objective(problem.vars, y)

\* optimize has completed a run with required_bits = 0 in which the lazy
\* hook was asked and a solution was found
C3_Witness ==
  /\ Done
  /\ required_bits = 0
  /\ AllBitsNonNegative
  /\ mip # None
  /\ Unwrap(closure).solve >= 1

\* the graph is the chain source -> mid -> sink, mid yields 10 bits, no node
\* is behind a lock, and 10 bits are required
Chain3Scenario ==
  /\ NodeSet(graph) = {0, 1, 2}
  /\ EdgeSet(graph) = {0, 1}
  /\ graph.ew[0].s = 0 /\ graph.ew[0].t = 1
  /\ graph.ew[1].s = 1 /\ graph.ew[1].t = 2
  /\ graph.nw[1].bits = 10
  /\ AllBitsNonNegative
  /\ \A n \in NodeSet(graph) : graph.nw[n].cost # "lock"
  /\ required_bits = 10

\* on the chain the only integral assignment within the build-time rows
\* selects both edges, and it is the solution of a completed run
Chain3BothEdges ==
  /\ SatAll(BuildRows, Selecting({0, 1}))
  /\ \A y \in IntAssignments : SatAll(BuildRows, y) => Selected(y) = {0, 1}
  /\ Done => mip = Some(Selecting({0, 1}))

\* C4 as claimed: on the 3-node chain with 10 bits at mid and required_bits
\* = 10 the only feasible integral assignment selects both edges, optimize
\* selects it, and its objective value is the two edge times plus the dwell
\* time of mid.
C4_ChainObjectiveMidDwell ==
  (Chain3Scenario /\ pc \in {"solving", "done"}) =>
    /\ Chain3BothEdges
    /\ Done =>
         Objective(problem.vars, IntValues)
           = (get_frames(graph.ew[0]) + get_frames(graph.ew[1])
              + graph.nw[1].time) * One

\* C4 as amended: the same, and the objective value is the two edge times
\* plus the dwell times of mid and of the sink.
C4_ChainObjectiveBothDwells ==
  (Chain3Scenario /\ pc \in {"solving", "done"}) =>
    /\ Chain3BothEdges
    /\ Done =>
         Objective(problem.vars, IntValues)
           = (get_frames(graph.ew[0]) + get_frames(graph.ew[1])
              + graph.nw[1].time + graph.nw[2].time) * One

\* optimize has completed on a chain whose mid and sink both take time
C4_Witness ==
  /\ Chain3Scenario
  /\ Done
  /\ mip = Some(Selecting({0, 1}))
  /\ graph.nw[1].time > 0
  /\ graph.nw[2].time > 0

\* the graph is two disjoint routes from the source to the sink: the cheaper
\* by node 1, whose nodes yield fewer than required_bits bits, the costlier
\* by node 2, whose nodes yield at least required_bits
TwoPathsScenario ==
  /\ NodeSet(graph) = {0, 1, 2, 3}
  /\ EdgeSet(graph) = {0, 1, 2, 3}
  /\ graph.ew[0].s = 0 /\ graph.ew[0].t = 1
  /\ graph.ew[1].s = 1 /\ graph.ew[1].t = 3
  /\ graph.ew[2].s = 0 /\ graph.ew[2].t = 2
  /\ graph.ew[3].s = 2 /\ graph.ew[3].t = 3
  /\ AllBitsNonNegative
  /\ RouteTime({0, 1}) < RouteTime({2, 3})
  /\ SumBits(graph.nw, {0, 1, 3}) < required_bits
  /\ SumBits(graph.nw, {0, 2, 3}) >= required_bits

OppositePairs ==
  {p \in EdgeSet(graph) \X EdgeSet(graph) :
     /\ graph.ew[p[1]].s = graph.ew[p[2]].t
     /\ graph.ew[p[1]].t = graph.ew[p[2]].s}

\* C6: for every pair of opposite-direction edges between the same two nodes,
\* parallel edges included, no integral assignment within the build-time rows
\* selects both edges of the pair.
C6_NoOppositePairSelected ==
  (Solving /\ phase = "root") =>
    \A y \in IntAssignments :
      SatAll(problem.rows, y) =>
        \A p \in OppositePairs : ~({p[1], p[2]} \subseteq Selected(y))

\* the return codes of glp_intopt that have an Error variant of their own
DocumentedErrors ==
  {<<"GLP_EBOUND", "Err(InvalidBounds)">>,
   <<"GLP_EROOT", "Err(NoInitSolution)">>,
   <<"GLP_ENOPFS", "Err(NotPrimalFeasible)">>,
   <<"GLP_ENODFS", "Err(NotDualFeasible)">>,
   <<"GLP_EFAIL", "Err(SolverFailed)">>,
   <<"GLP_EMIPGAP", "Err(HitMipGapLimit)">>,
   <<"GLP_ETMLIM", "Err(Timeout)">>,
   <<"GLP_ESTOP", "Err(Stopped)">>}

\* the sink was asked to render a BEST graph
BestRendered ==
  \E i \in 1..Len(rendered) : rendered[i].filename.kind = "BEST"

\* C7: a solve that ends with a nonzero return code is never reported as a
\* success: optimize_mip returns Ok for code 0 only, the Error variant of
\* each documented code, Error::Unknown for any other code, and after an
\* error optimize does not complete and renders no BEST graph.
C7_NonzeroCodeIsTypedError ==
  result # None =>
    LET r == Unwrap(result)
    IN /\ r.value = "Ok" <=> r.err = "0"
       /\ \A d \in DocumentedErrors : r.err = d[1] => r.value = d[2]
       /\ (r.err # "0" /\ \A d \in DocumentedErrors : r.err # d[1]) =>
            r.value = "Err(Unknown)"
       /\ r.err # "0" => pc = "panicked" /\ panic # None /\ ~BestRendered
       /\ r.err = "0" => Done /\ BestRendered

\* glp_intopt ran into its time limit after a solution had been found
C7_Witness ==
  /\ result = Some([err |-> "GLP_ETMLIM", value |-> "Err(Timeout)"])
  /\ mip # None
  /\ pc = "panicked"
  /\ ~BestRendered

\* what optimize is documented to refuse: no or several nodes without
\* incoming edges, no or several nodes without outgoing edges, or node or
\* edge identifiers that are not the numbers from zero on
InvalidGraph ==
  \/ Cardinality({n \in NodeSet(graph) :
                    ~\E e \in EdgeSet(graph) : graph.ew[e].t = n}) # 1
  \/ Cardinality({n \in NodeSet(graph) :
                    ~\E e \in EdgeSet(graph) : graph.ew[e].s = n}) # 1
  \/ NodeSet(graph) # 0..(Cardinality(NodeSet(graph)) - 1)
  \/ EdgeSet(graph) # 0..(Cardinality(EdgeSet(graph)) - 1)

\* C8: on a graph with no or several sources, no or several sinks, or node
\* or edge identifiers that are not dense from zero, optimize stops with a
\* fatal error before the problem is created and before any variable or
\* constraint is added.
C8_InvalidGraphRejectedFirst ==
  InvalidGraph =>
    /\ pc \in {"start", "panicked"}
    /\ pc = "panicked" => panic # None
    /\ problem = NoProblem
    /\ ~problem.created /\ problem.vars = <<>> /\ problem.rows = <<>>

\* optimize has refused a graph whose node identifiers have a gap
C8_Witness ==
  /\ InvalidGraph
  /\ NodeSet(graph) # 0..(Cardinality(NodeSet(graph)) - 1)
  /\ pc = "panicked"
  /\ panic = Some("graph node indicies were not dense")
  /\ problem = NoProblem

\* C9: a failure of the progress sink, be it the setup of the output folder
\* when the renderer is created or the writing of a render, never aborts
\* optimize.
C9_SinkFailureNeverAborts ==
  pc = "panicked" => panic # Some("Renderer::new: unwrap on None")

\* the hooks the callback is to run for a reason code
ExpectedHooks(reason) ==
  CASE reason = "GLP_IROWGEN" -> <<"get_lazy_expr">>
    [] reason = "GLP_IHEUR" -> <<"get_heuristic_solution">>
    [] reason = "GLP_IBRANCH" -> <<"get_branch">>
    [] reason = "GLP_IBINGO" -> <<"new_best_solution">>
    [] OTHER -> <<>>

\* C10: every callback invocation runs exactly the hook of its reason code
\* and none for any other code; a constraint the lazy hook returns is the
\* newest row of the problem when the callback returns, and when the lazy
\* hook returns nothing or another hook runs the rows are unchanged.
C10_CallbackDispatch ==
  [][calls' # calls =>
       /\ last_call'.hooks = ExpectedHooks(last_call'.reason)
       /\ IF last_call'.reason = "GLP_IROWGEN" /\ last_call'.ret # None
          THEN problem'.rows = Append(problem.rows, Unwrap(last_call'.ret))
          ELSE problem'.rows = problem.rows]_vars

\* the lazy hook has returned a cut and it is the newest row of the problem
C10_Witness ==
  /\ last_call.reason = "GLP_IROWGEN"
  /\ last_call.hooks = <<"get_lazy_expr">>
  /\ last_call.ret # None
  /\ problem.rows[Len(problem.rows)] = Unwrap(last_call.ret)
  /\ Len(CutRows) = 1

(***************************************************************************)
(* C11..C20                                                                *)
(***************************************************************************)
\* the problem is built and glp_intopt has not started on it
Built == Solving /\ phase = "root"

\* the edges iterating heuristic_path yields on the value graph of x
PathEdges(x, hasher) ==
  LET values == value_graph(graph, x, edges)
  IN HeuristicPathIter(values,
                       heuristic_path(values, First, Last, hasher).states,
                       First, Len(graph.nodes) + 1)

\* the branch hook has just run on the relaxation cur
JustBranched == Solving /\ last_call.reason = "GLP_IBRANCH" /\ phase = "lp"

LazyCut(x) ==
  lazy_required_bits_expr(graph, edges, First, required_bits,
                          value_graph(graph, x, edges))

\* the nodes the entry reaches in the value graph of x
Reached(x) == get_connected_nodes(value_graph(graph, x, edges), First).discovered

\* the cuts the generator can return on the graph at hand
LazyCuts == {Unwrap(LazyCut(y)) : y \in {z \in Assignments : LazyCut(z) # None}}

\* C12: two snapshots whose reached node sets are equal produce lazy cuts
\* with the same name, bound and terms, and adding such a cut a second time
\* leaves the set of assignments satisfying the problem as it was after the
\* first addition.
C12_LazyCutIdempotent ==
  Built =>
    /\ \A S \in SUBSET NodeSet(graph) :
         Cardinality({LazyCut(y) : y \in {z \in Assignments : Reached(z) = S}})
           <= 1
    /\ \A c \in LazyCuts :
         LET once == add_expr(problem, c)
             twice == add_expr(once, c)
         IN /\ Len(twice.rows) = Len(once.rows) + 1
            /\ \A z \in Assignments :
                 SatAll(once.rows, z) <=> SatAll(twice.rows, z)

\* a cut was added on a relaxation that shares its reached set with another
\* assignment, and the cut does cut into what the build-time rows allow
C12_Witness ==
  /\ Solving /\ phase = "lp"
  /\ last_call.reason = "GLP_IROWGEN"
  /\ last_call.ret # None
  /\ \E y \in Assignments : y # cur /\ Reached(y) = Reached(cur)
  /\ \E z \in Assignments :
       SatAll(BuildRows, z) /\ ~RowSat(Unwrap(last_call.ret), z)

RECURSIVE SumOver(_, _)
\* the sum of the values x gives to the variables of the edges es
SumOver(es, x) ==
  IF es = {} THEN 0
  ELSE LET e == CHOOSE f \in es : TRUE
       IN x[VarRefsGet(edges, e)] + SumOver(es \ {e}, x)

InEdges(n) == {e \in EdgeSet(graph) : graph.ew[e].t = n}
OutEdges(n) == {e \in EdgeSet(graph) : graph.ew[e].s = n}

\* the rows of one kind built for node n
RowsOf(kind, n) ==
  SelectSeq(problem.rows, LAMBDA r : r.name = Name(kind, <<n>>))

\* +1 at the entry, -1 at the goal, 0 elsewhere
FlowBalance(n) == IF n = First THEN One ELSE IF n = Last THEN 0 - One ELSE 0

\* C13 as claimed: the flow constraint built for every node fixes the sum of
\* its incoming edge variables minus the sum of its outgoing edge variables
\* to +1 at the entry, -1 at the goal and 0 at every other node.
C13_FlowInMinusOut ==
  Built =>
    \A n \in NodeSet(graph) :
      /\ Len(RowsOf("flow", n)) = 1
      /\ \A y \in Assignments :
           RowSat(RowsOf("flow", n)[1], y) <=>
             SumOver(InEdges(n), y) - SumOver(OutEdges(n), y) = FlowBalance(n)

\* C13 as amended: the flow constraint built for every node fixes the sum of
\* its outgoing edge variables minus the sum of its incoming edge variables
\* to +1 at the entry, -1 at the goal and 0 at every other node.
C13_FlowOutMinusIn ==
  Built =>
    \A n \in NodeSet(graph) :
      /\ Len(RowsOf("flow", n)) = 1
      /\ \A y \in Assignments :
           RowSat(RowsOf("flow", n)[1], y) <=>
             SumOver(OutEdges(n), y) - SumOver(InEdges(n), y) = FlowBalance(n)

\* a problem was built on a graph with a node that has edges in and edges
\* out, and some assignment satisfies every flow row
C13_Witness ==
  /\ Built
  /\ \E n \in NodeSet(graph) : InEdges(n) # {} /\ OutEdges(n) # {}
  /\ \E y \in IntAssignments :
       \A n \in NodeSet(graph) : RowSat(RowsOf("flow", n)[1], y)

\* the rows of one kind among those built with the problem
RowsOfKind(kind) == SelectSeq(problem.rows, LAMBDA r : r.name.kind = kind)

\* the capacity rows the optimize of ll.rs would build for the same graph
LlOnceRows == ll_once_exprs(graph, edges, First, Last)

\* C14: for every assignment satisfying the flow constraints, the capacity
\* constraints on incoming sums (opt.rs) hold at all non-terminal nodes
\* exactly if those on outgoing sums (ll.rs) do, so flow and capacity have
\* the same feasible set in both variants, and in it no non-terminal node
\* has more than one selected incoming or outgoing edge.
C14_CapacityVariantsAgree ==
  Built =>
    /\ Range(LlOnceRows) = {}  <=> NodeSet(graph) = {First, Last}
    /\ \A y \in Assignments :
         SatAll(RowsOfKind("flow"), y) =>
           /\ SatAll(RowsOfKind("capacity"), y) <=> SatAll(LlOnceRows, y)
           /\ SatAll(RowsOfKind("capacity"), y) =>
                \A n \in NodeSet(graph) \ {First, Last} :
                  /\ Cardinality(InEdges(n) \cap Selected(y)) <= 1
                  /\ Cardinality(OutEdges(n) \cap Selected(y)) <= 1

\* a problem was built on a graph where an assignment within the flow rows
\* enters a node twice, which both capacity variants refuse
C14_Witness ==
  /\ Built
  /\ \E y \in IntAssignments :
       /\ SatAll(RowsOfKind("flow"), y)
       /\ ~SatAll(RowsOfKind("capacity"), y)
       /\ ~SatAll(LlOnceRows, y)

\* the edges that are not secret-tagged
NonSecretEdges == {e \in EdgeSet(graph) : graph.ew[e].cost # "secret"}

\* every way from the entry to n along the edges es passes through d
PassesThrough(es, d, n) ==
  n \notin ReachVia(graph, {e \in es : graph.ew[e].s # d /\ graph.ew[e].t # d},
                    {First})

\* the nodes other than n that every way to n passes through, for an n the
\* entry reaches along es
Gateways(es, n) ==
  IF n \notin ReachVia(graph, es, {First}) THEN {}
  ELSE {d \in NodeSet(graph) \ {n} : d = First \/ PassesThrough(es, d, n)}

\* d is the immediate dominator of n along es: the gateway closest to n
IsIDom(es, d, n) ==
  /\ d \in Gateways(es, n)
  /\ \A g \in Gateways(es, n) \ {d} : g \in Gateways(es, d)

\* the pairs (N, D) the dominator constraints are for
DominatorPairs ==
  {p \in NodeSet(graph) \X (NodeSet(graph) \ {First}) :
     IsIDom(NonSecretEdges, p[2], p[1])}

\* C15: in every integral assignment within the build-time rows, for every
\* node N whose immediate dominator D over the subgraph without secret edges
\* is not the entry, a selected edge into N comes with a selected edge into
\* D; there is no dominator row for the entry, for nodes whose immediate
\* dominator is the entry and for nodes that subgraph does not reach.
C15_DominatorRows ==
  Built =>
    /\ \A p \in DominatorPairs :
         /\ Len(RowsOf("dominator", p[1])) = 1
         /\ \A y \in IntAssignments :
              (SatAll(BuildRows, y) /\ InEdges(p[1]) \cap Selected(y) # {})
                => InEdges(p[2]) \cap Selected(y) # {}
    /\ \A n \in NodeSet(graph) :
         (~\E p \in DominatorPairs : p[1] = n) =>
           RowsOf("dominator", n) = <<>>

\* a problem was built on a graph with a secret door, with a dominator row
\* for some node and none for a node that only the secret door leads to
C15_Witness ==
  /\ Built
  /\ NonSecretEdges # EdgeSet(graph)
  /\ DominatorPairs # {}
  /\ \E n \in NodeSet(graph) :
       /\ n \notin ReachVia(graph, NonSecretEdges, {First})
       /\ RowsOf("dominator", n) = <<>>
  /\ \E y \in IntAssignments : SatAll(BuildRows, y)

\* the build-time rows other than the dominator rows
OtherBuildRows == SelectSeq(BuildRows, LAMBDA r : r.name.kind # "dominator")

\* C16: for every dominator constraint generated for a pair (N, D), every
\* path from the entry to N in the full graph, secret-tagged edges included,
\* passes through D; hence the dominator constraints exclude no simple path
\* from the entry to the goal that satisfies the other constraints.
C16_DominatorRowsExcludeNoPath ==
  Built =>
    /\ \A p \in DominatorPairs :
         RowsOf("dominator", p[1]) # <<>> =>
           PassesThrough(EdgeSet(graph), p[2], p[1])
    /\ \A es \in SimplePaths :
         SatAll(OtherBuildRows, Selecting(es)) =>
           SatAll(RowsOfKind("dominator"), Selecting(es))

RECURSIVE KeySum(_)
\* keys yielded by the nodes ns, less one for every lock-tagged node
KeySum(ns) ==
  IF ns = {} THEN 0
  ELSE LET n == CHOOSE m \in ns : TRUE
       IN graph.nw[n].keys - (IF graph.nw[n].cost = "lock" THEN 1 ELSE 0)
          + KeySum(ns \ {n})

\* the nodes that have a selected incoming edge
Entered(y) == {n \in NodeSet(graph) : InEdges(n) \cap Selected(y) # {}}

\* C17: in every integral assignment within the build-time rows the sum,
\* over the nodes with a selected incoming edge, of keys yielded minus 1 for
\* a lock-tagged node is at least 0; and the key row bounds this total only:
\* among the assignments within the flow and capacity rows it holds exactly
\* for those whose total is at least 0, whatever the order of locks and keys.
C17_KeyTotalOnly ==
  Built =>
    /\ Len(RowsOfKind("total_keys")) = 1
    /\ \A y \in IntAssignments :
         /\ SatAll(BuildRows, y) => KeySum(Entered(y)) >= 0
         /\ (SatAll(RowsOfKind("flow"), y) /\ SatAll(RowsOfKind("capacity"), y))
              => (RowSat(RowsOfKind("total_keys")[1], y)
                    <=> KeySum(Entered(y)) >= 0)

\* optimize has completed with a route that enters a lock-tagged node before
\* any node that yields a key
C17_Witness ==
  /\ Done
  /\ mip # None
  /\ IsSimplePath(Selected(Unwrap(mip)))
  /\ \E l \in Entered(Unwrap(mip)) :
       /\ graph.nw[l].cost = "lock"
       /\ graph.nw[First].keys = 0
       /\ \A k \in Entered(Unwrap(mip)) \ {l} :
            graph.nw[k].keys > 0 =>
              PassesThrough(Selected(Unwrap(mip)), l, k)

\* edge values a snapshot can hold, EPS itself among them
SnapshotValues == {0, EPS, Half, One}
Snapshots == [1..Len(problem.vars) -> SnapshotValues]

\* the nodes the entry reaches through edges whose value in y is above EPS,
\* and the edges of the full graph that leave that set
AboveEps(y) == {e \in EdgeSet(graph) : y[VarRefsGet(edges, e)] > EPS}
EntrySide(y) == ReachVia(graph, AboveEps(y), {First})
Boundary(y) == {e \in EdgeSet(graph) : graph.ew[e].s \in EntrySide(y) /\ graph.ew[e].t \notin EntrySide(y)}

\* C18: for every value graph the lazy cut generator emits a constraint if
\* and only if the bits summed over the nodes reachable from the entry
\* through edges with value above EPS are strictly less than required_bits;
\* the constraint is sum >= 1 over exactly the edges of the full graph that
\* go from a reached node to an unreached node, each once with coefficient
\* 1, and otherwise nothing is emitted.
C18_LazyCutIffTooFewBits ==
  Built =>
    \A y \in Snapshots :
      LET cut == LazyCut(y)
      IN /\ cut # None <=> SumBits(graph.nw, EntrySide(y)) < required_bits
         /\ cut # None =>
              /\ Unwrap(cut).bounds = Lower(1)
              /\ Range(Unwrap(cut).terms) = {Term(VarRefsGet(edges, e), 1) : e \in Boundary(y)}
              /\ Len(Unwrap(cut).terms) = Cardinality(Boundary(y))

\* a callback has just added a cut whose boundary is not empty and is not
\* the whole set of edges leaving the entry side's nodes
C18_Witness ==
  /\ Solving
  /\ last_call.reason = "GLP_IROWGEN"
  /\ LazyCut(cur) # None
  /\ Boundary(cur) # {}
  /\ EntrySide(cur) # {First}
  /\ \E e \in EdgeSet(graph) : cur[VarRefsGet(edges, e)] = Half

\* a callback has just handed the solver a lazy cut made from cur
JustCut == Solving /\ last_call.reason = "GLP_IROWGEN" /\ last_call.ret # None /\ phase = "lp"

\* C19: every constraint the lazy cut generator emits is violated by the
\* assignment it was generated from: each edge of the constraint has value
\* at most EPS in that assignment, so that their sum is below 1; a cut with
\* no edge at all is violated as well.
C19_CutViolatedByItsSnapshot ==
  /\ Built =>
       \A y \in Snapshots :
         LazyCut(y) # None =>
           /\ \A t \in Range(Unwrap(LazyCut(y)).terms) : y[t[1]] <= EPS
           /\ ~RowSat(Unwrap(LazyCut(y)), y)
  /\ JustCut => ~RowSat(Unwrap(last_call.ret), cur)

\* a cut over one edge or more has just been added, and the graph has a
\* snapshot whose cut has an edge of value EPS
C19_Witness ==
  /\ JustCut
  /\ Len(Unwrap(last_call.ret).terms) >= 1
  /\ ~RowSat(Unwrap(last_call.ret), cur)
  /\ \E y \in Snapshots :
       /\ LazyCut(y) # None
       /\ \E t \in Range(Unwrap(LazyCut(y)).terms) : y[t[1]] = EPS

\* the simple entry-to-goal paths whose nodes yield required_bits or more
ValidRoutes == {es \in SimplePaths : PathBits(es) >= required_bits}

\* C20: with all node bits >= 0, every integral assignment that is a simple
\* entry-to-goal path whose nodes yield at least required_bits satisfies
\* every cut the lazy cut generator can make from any value graph, and so
\* every cut a run has added.
C20_CutsKeepValidRoutes ==
  /\ (Built /\ AllBitsNonNegative) =>
       \A y \in Snapshots :
         LazyCut(y) # None =>
           \A es \in ValidRoutes : RowSat(Unwrap(LazyCut(y)), Selecting(es))
  /\ (Solving /\ AllBitsNonNegative) =>
       \A es \in ValidRoutes : SatAll(CutRows, Selecting(es))

\* a cut over some edge has just been added on a graph with bits to collect
\* and a valid route, which the cut keeps while it excludes another simple
\* path
C20_Witness ==
  /\ JustCut
  /\ AllBitsNonNegative
  /\ required_bits > 0
  /\ Unwrap(last_call.ret).terms # <<>>
  /\ ValidRoutes # {}
  /\ \A es \in ValidRoutes : SatAll(CutRows, Selecting(es))
  /\ \E es \in SimplePaths : ~SatAll(CutRows, Selecting(es))

(***************************************************************************)
(* C21..C30                                                                *)
(***************************************************************************)
\* rows is what old was, with zero or more rows after it
Extends(rows, old) == Len(rows) >= Len(old) /\ SubSeq(rows, 1, Len(old)) = old

\* C21: during one call of optimize the constraint set only grows: once the
\* problem is built no step removes or changes a row or a variable, a
\* callback in which the lazy hook returns a cut adds exactly one row, and
\* no step but such a callback adds any.
C21_RowsOnlyGrow ==
  [][pc # "start" =>
       /\ Extends(problem'.rows, problem.rows)
       /\ problem'.vars = problem.vars
       /\ (calls' # calls /\ last_call'.hooks = <<"get_lazy_expr">> /\ last_call'.ret # None) => Len(problem'.rows) = Len(problem.rows) + 1
       /\ problem'.rows # problem.rows => (calls' # calls /\ last_call'.reason = "GLP_IROWGEN" /\ last_call'.ret # None)]_vars

\* two cuts have been added to the rows of the build, and optimize has
\* completed
C21_Witness ==
  /\ Done
  /\ Len(CutRows) >= 2
  /\ Extends(problem.rows, BuildRows)

\* the table heuristic_path computes on the value graph of y, and the order
\* in which it visits the nodes
Values(y) == value_graph(graph, y, edges)
StatesOf(y) == heuristic_path(Values(y), First, Last, 0).states
VisitOrder(y) == DfsPostOrder(Values(y), <<First>>, {}, {}, <<>>)
VisitPos(ord, n) == CHOOSE i \in 1..Len(ord) : ord[i] = n

\* the outgoing edges of n with value above EPS in y whose target has a
\* state in the table st when n is visited in the order ord: the goal, or a
\* node visited before n that got one
Candidates(y, st, ord, n) ==
  {e \in AboveEps(y) :
     /\ graph.ew[e].s = n
     /\ graph.ew[e].t \in DOMAIN st
     /\ \/ graph.ew[e].t = Last
        \/ /\ graph.ew[e].t \in Range(ord)
           /\ VisitPos(ord, graph.ew[e].t) < VisitPos(ord, n)}

\* bits and edge values accumulated along the chain that starts with e
ChainBits(st, e) == graph.nw[graph.ew[e].s].bits + st[graph.ew[e].t].bits
ChainValue(y, st, e) == y[VarRefsGet(edges, e)] + st[graph.ew[e].t].weight

RECURSIVE ChainTimeFrom(_, _, _)
\* the time of the chain the table st holds from node n on
ChainTimeFrom(st, n, fuel) ==
  IF fuel = 0 \/ n \notin DOMAIN st \/ st[n].edge = None
  THEN 0
  ELSE LET e == Unwrap(st[n].edge)
       IN get_frames(graph.ew[e]) + graph.nw[graph.ew[e].t].time
          + ChainTimeFrom(st, graph.ew[e].t, fuel - 1)

\* the time of the chain that starts with e
ChainTime(st, e) ==
  get_frames(graph.ew[e]) + graph.nw[graph.ew[e].t].time
  + ChainTimeFrom(st, graph.ew[e].t, Len(graph.nodes))

\* C22 as stated: in heuristic_path the edge chosen for a node is, among the
\* outgoing edges whose target already has a computed state, one with the
\* most accumulated bits and, among those with equal bits, the least
\* accumulated time of the chain.
C22_MostBitsLeastTime ==
  Built =>
    \A y \in Assignments :
      LET st == StatesOf(y)
          ord == VisitOrder(y)
      IN \A n \in (Range(ord) \cap DOMAIN st) \ {Last} :
           LET e == Unwrap(st[n].edge)
           IN \A f \in Candidates(y, st, ord, n) :
                /\ ChainBits(st, f) <= ChainBits(st, e)
                /\ ChainBits(st, f) = ChainBits(st, e) => ChainTime(st, e) <= ChainTime(st, f)

\* C22 as the code has it: the edge chosen for a node is, among the outgoing
\* edges whose target already has a computed state, one with the most
\* accumulated bits and, among those with equal bits, the greatest
\* accumulated edge value of the chain; a node gets a state exactly when it
\* has such an edge.
C22_MostBitsMostValue ==
  Built =>
    \A y \in Assignments :
      LET st == StatesOf(y)
          ord == VisitOrder(y)
      IN \A n \in Range(ord) \ {Last} :
           /\ n \in DOMAIN st <=> Candidates(y, st, ord, n) # {}
           /\ n \in DOMAIN st =>
                /\ st[n].edge # None
                /\ Unwrap(st[n].edge) \in Candidates(y, st, ord, n)
                /\ st[n].bits = ChainBits(st, Unwrap(st[n].edge))
                /\ st[n].weight = ChainValue(y, st, Unwrap(st[n].edge))
                /\ \A f \in Candidates(y, st, ord, n) :
                     /\ ChainBits(st, f) <= st[n].bits
                     /\ ChainBits(st, f) = st[n].bits => ChainValue(y, st, f) <= st[n].weight

\* get_branch has just run on a relaxation in which some node has two
\* candidate edges with the same bits and different accumulated values
C22_Witness ==
  /\ JustBranched
  /\ LET st == StatesOf(cur)
         ord == VisitOrder(cur)
     IN \E n \in (Range(ord) \cap DOMAIN st) \ {Last} :
          \E e, f \in Candidates(cur, st, ord, n) :
            /\ st[n].edge = Some(e)
            /\ ChainBits(st, f) = ChainBits(st, e)
            /\ ChainValue(cur, st, f) < ChainValue(cur, st, e)
            /\ ChainTime(st, f) # ChainTime(st, e)

\* values near the two ends of the interval get_branch leaves open
BranchValues == {0, 2 * EPS, Half, One - EPS}
BranchSnapshots == [1..Len(problem.vars) -> BranchValues]

\* what C23 says of get_branch on the values y: chain is the entry's
\* heuristic chain and ret what get_branch returned
BranchAsStated(y, chain, ret) ==
  LET open == {i \in 1..Len(chain) : One - y[VarRefsGet(edges, chain[i])] > EPS}
      score(i) == Abs(y[VarRefsGet(edges, chain[i])] - Half)
  IN /\ ret = None <=> open = {}
     /\ ret # None =>
          \E i \in open :
            /\ Unwrap(ret) = <<VarRefsGet(edges, chain[i]), "Up">>
            /\ \A j \in open : score(i) <= score(j)
            /\ \A j \in open : j < i => score(i) < score(j)
            /\ y[Unwrap(ret)[1]] > EPS
            /\ y[Unwrap(ret)[1]] < One - EPS

\* C23: get_branch considers only the edges on the entry's heuristic chain
\* with 1 - value > EPS, returns the variable of the one whose value is
\* closest to 0.5, the earliest on the chain among ties, always with
\* direction Up, and returns no override exactly when the chain has no such
\* edge; the value of the returned variable is strictly between EPS and
\* 1 - EPS.
C23_BranchClosestToHalf ==
  /\ Built =>
       \A y \in Assignments \cup BranchSnapshots :
         BranchAsStated(y, PathEdges(y, 0), get_branch(Unwrap(closure), graph, edges, First, Last, y, 0).ret)
  /\ JustBranched => BranchAsStated(cur, PathEdges(cur, 0), last_call.ret)

\* get_branch has just returned the earlier of two edges of the chain that
\* are equally close to 0.5, on a chain that also has an edge of value 1
C23_Witness ==
  /\ JustBranched
  /\ last_call.ret # None
  /\ LET chain == PathEdges(cur, 0)
     IN \E i, j, k \in 1..Len(chain) :
          /\ i < j
          /\ Unwrap(last_call.ret)[1] = VarRefsGet(edges, chain[i])
          /\ cur[VarRefsGet(edges, chain[j])] = Half
          /\ cur[VarRefsGet(edges, chain[k])] = One

\* the hooks that build a value graph and hand nothing back to the problem
ReadOnlyHooks == {<<"get_branch">>, <<"new_best_solution">>}

\* C24: the value graph built for a callback contains every node of the
\* graph and exactly those edges whose current variable value is strictly
\* greater than EPS, each with the id and the endpoints it has in the graph
\* and with its value as weight; building it changes neither the graph nor
\* the problem.
C24_ValueGraphIsSnapshot ==
  /\ [](Built =>
          \A y \in Snapshots :
            LET v == Values(y)
            IN /\ v.nodes = graph.nodes
               /\ v.nw = graph.nw
               /\ Range(v.edges) = {e \in EdgeSet(graph) : y[VarRefsGet(edges, e)] > EPS}
               /\ Len(v.edges) = Cardinality(Range(v.edges))
               /\ \A e \in Range(v.edges) :
                    /\ v.ew[e].s = graph.ew[e].s
                    /\ v.ew[e].t = graph.ew[e].t
                    /\ v.ew[e].weight = y[VarRefsGet(edges, e)])
  /\ [][/\ graph' = graph
        /\ (calls' # calls /\ last_call'.hooks \in ReadOnlyHooks) => problem' = problem
        /\ (calls' # calls /\ last_call'.hooks = <<"get_lazy_expr">> /\ last_call'.ret = None) => problem' = problem]_vars

\* a new best solution has just been rendered: the sink was shown the value
\* graph of the relaxation, some edges of the graph and not all of them
C24_Witness ==
  /\ Solving
  /\ phase = "lp"
  /\ last_call.hooks = <<"new_best_solution">>
  /\ rendered # <<>>
  /\ rendered[Len(rendered)].shown = Range(Values(cur).edges)
  /\ Range(Values(cur).edges) # {}
  /\ Range(Values(cur).edges) # EdgeSet(graph)

\* a callback step in which the hook h ran
Ran(h) == calls' # calls /\ last_call'.hooks = <<h>>

\* the step called the sink once, with a label of the given kind and the
\* edges es to show
SinkCalled(kind, es) ==
  /\ Len(rendered') = Len(rendered) + 1
  /\ SubSeq(rendered', 1, Len(rendered)) = rendered
  /\ rendered'[Len(rendered')].filename.kind = kind
  /\ rendered'[Len(rendered')].shown = es

\* C25 as stated: at every callback event of optimize, each cut emitted,
\* each relaxation accepted for branching and each new best solution, the
\* progress sink is called with a label and the current value graph, and
\* once more with the integral-valued graph at completion.
C25_SinkCalledAtEveryEvent ==
  [][/\ (Ran("get_lazy_expr") /\ last_call'.ret # None) => SinkCalled("cut", AboveEps(cur))
     /\ (Ran("get_lazy_expr") /\ last_call'.ret = None) => SinkCalled("branch", AboveEps(cur))
     /\ Ran("new_best_solution") => SinkCalled("solution", AboveEps(cur))
     /\ pc' = "done" => SinkCalled("BEST", Selected(IntValues))]_vars

\* counter values on either side of the multiples of RENDER_BRANCH and of
\* RENDER_CUT
CounterValues == {0, RENDER_BRANCH - 2, RENDER_BRANCH - 1, RENDER_BRANCH, 2 * RENDER_BRANCH - 1, RENDER_CUT - 2, RENDER_CUT - 1}

\* C25 as the code has it: the sink is called with a label and the current
\* value graph at each new best solution, at a cut only when the count of
\* cuts reaches a multiple of RENDER_CUT and at an accepted relaxation only
\* when the count of accepted relaxations reaches a multiple of
\* RENDER_BRANCH; it is called once more with the integral-valued graph when
\* optimize completes, and at no other step.
C25_SinkCalledWhenCountersSay ==
  /\ [][/\ Ran("new_best_solution") => SinkCalled("solution", AboveEps(cur))
        /\ (Ran("get_lazy_expr") /\ last_call'.ret # None) =>
             IF (Unwrap(closure).cut + 1) % RENDER_CUT = 0
             THEN SinkCalled("cut", AboveEps(cur)) ELSE rendered' = rendered
        /\ (Ran("get_lazy_expr") /\ last_call'.ret = None) =>
             IF (Unwrap(closure).branch + 1) % RENDER_BRANCH = 0
             THEN SinkCalled("branch", AboveEps(cur)) ELSE rendered' = rendered
        /\ pc' = "done" => SinkCalled("BEST", Selected(IntValues))
        /\ (pc' # "done" /\ ~Ran("new_best_solution") /\ ~Ran("get_lazy_expr")) => rendered' = rendered]_vars
  /\ [](Built =>
          \A y \in Assignments : \A c \in CounterValues :
            LET r == get_lazy_expr([Unwrap(closure) EXCEPT !.cut = c, !.branch = c], graph, edges, First, Last, required_bits, y)
                due == IF r.ret # None THEN (c + 1) % RENDER_CUT = 0 ELSE (c + 1) % RENDER_BRANCH = 0
            IN /\ r.out # <<>> <=> due
               /\ r.out # <<>> =>
                    /\ Len(r.out) = 1
                    /\ r.out[1].filename.kind = (IF r.ret # None THEN "cut" ELSE "branch")
                    /\ r.out[1].values = Values(y))

\* optimize has completed after a cut and an accepted relaxation, and the
\* sink was called for the new best solution and for the final graph only
C25_Witness ==
  /\ Done
  /\ Len(CutRows) >= 1
  /\ Unwrap(closure).solve >= 1
  /\ Len(rendered) = Unwrap(closure).solve + 1
  /\ rendered[1].filename.kind = "solution"
  /\ rendered[Len(rendered)].filename.kind = "BEST"
  /\ rendered[Len(rendered)].shown = Selected(Unwrap(mip))

\* the rooms of the file hold two rooms or two nodes of one room with the
\* same name
DuplicateNames(rooms) ==
  \/ \E i, j \in 1..Len(rooms) : i < j /\ rooms[i].name = rooms[j].name
  \/ \E r \in 1..Len(rooms) : \E i, j \in 1..Len(rooms[r].nodes) :
       i < j /\ rooms[r].nodes[i].name = rooms[r].nodes[j].name

\* some door of the rooms names a room that does not exist, or a room that
\* has no node of the door's name
DanglingDoor(rooms) ==
  \E r \in 1..Len(rooms) : \E i \in 1..Len(rooms[r].nodes) :
    LET door == rooms[r].nodes[i]
    IN /\ door.to # None
       /\ door.time \notin {"Src", "End"}
       /\ \A k \in 1..Len(rooms) :
            rooms[k].name = Unwrap(door.to) =>
              \A m \in 1..Len(rooms[k].nodes) : rooms[k].nodes[m].name # door.name

\* C26: loading room data that contains duplicate room or node names, or a
\* door whose destination room or matching destination node does not exist,
\* produces a warning only: load still returns a graph and does not abort.
C26_LoadWarnsAndReturns ==
  (DuplicateNames(loader.rooms) \/ DanglingDoor(loader.rooms)) =>
    /\ loader.pc # "panicked"
    /\ loader.pc \in {"verified", "edges", "done"} => loader.warnings # <<>>

\* 2 to the power n
RECURSIVE Pow2(_)
Pow2(n) == IF n = 0 THEN 1 ELSE 2 * Pow2(n - 1)

\* C27: the cut loop cannot repeat itself: an assignment that satisfies a
\* cut never makes the lazy cut generator emit the cut of the same reached
\* node set again, so the cuts of a run are for pairwise different node
\* sets, each containing the entry, and there are never more of them than
\* there are subsets of the nodes that contain the entry.
C27_NoCutTwice ==
  /\ Built =>
       \A cut \in LazyCuts : \A z \in Assignments :
         (RowSat(cut, z) /\ LazyCut(z) # None) => Unwrap(LazyCut(z)).name # cut.name
  /\ Solving =>
       /\ \A i, j \in 1..Len(CutRows) : i # j => CutRows[i].name # CutRows[j].name
       /\ \A i \in 1..Len(CutRows) : First \in Range(CutRows[i].name.of)
       /\ Len(CutRows) <= Pow2(Len(graph.nodes) - 1)
  /\ JustCut => \A i \in 1..(Len(CutRows) - 1) : CutRows[i].name # Unwrap(last_call.ret).name

\* a second cut has just been added, for a node set other than the first
\* one's, from an assignment that satisfies the first cut
C27_Witness ==
  /\ JustCut
  /\ Len(CutRows) = 2
  /\ CutRows[2] = Unwrap(last_call.ret)
  /\ CutRows[1].name # CutRows[2].name
  /\ RowSat(CutRows[1], cur)
  /\ ~RowSat(CutRows[2], cur)

\* the edges HeuristicPathIter yields from the entry on the value graph of
\* y, cut off after twice as many as there are nodes
LongWalk(y) == HeuristicPathIter(Values(y), StatesOf(y), First, 2 * Len(graph.nodes))

\* C28: for every value graph, those with cycles included, iterating the
\* heuristic path from the entry terminates, yields only edges with value
\* above EPS, each starting where the previous one ended, visits no node
\* twice, and is non-empty exactly when the goal is reachable from the
\* entry in the value graph, in which case it ends at the goal.
C28_HeuristicPathIsSimplePath ==
  /\ Built =>
       \A y \in Snapshots :
         LET chain == LongWalk(y)
             n == Len(chain)
         IN /\ n < 2 * Len(graph.nodes)
            /\ \A i \in 1..n : y[VarRefsGet(edges, chain[i])] > EPS
            /\ n > 0 => graph.ew[chain[1]].s = First
            /\ \A i \in 1..(n - 1) : graph.ew[chain[i + 1]].s = graph.ew[chain[i]].t
            /\ \A i, j \in 1..n : i < j => graph.ew[chain[i]].t # graph.ew[chain[j]].t
            /\ \A i \in 1..n : graph.ew[chain[i]].t # First
            /\ n > 0 <=> Last \in EntrySide(y)
            /\ n > 0 => graph.ew[chain[n]].t = Last
  /\ JustBranched => PathEdges(cur, 0) = LongWalk(cur)

\* get_branch has just walked a chain of two edges or more to the goal on
\* a value graph that has a cycle
C28_Witness ==
  /\ JustBranched
  /\ Len(LongWalk(cur)) >= 2
  /\ graph.ew[LongWalk(cur)[Len(LongWalk(cur))]].t = Last
  /\ \E e, f \in AboveEps(cur) : graph.ew[e].s = graph.ew[f].t /\ graph.ew[e].t = graph.ew[f].s

\* C29: for every assignment, when all node bits are >= 0 and no edge value
\* is exactly EPS, the lazy-cut step of ll.rs, whose DFS stops as soon as
\* required_bits is reached and keeps edges of value >= EPS, and that of
\* opt.rs, whose DFS is full and keeps edges of value > EPS, agree on
\* whether a cut is added and, when one is, on its node set, its name, its
\* bound and its boundary-edge terms.
C29_LazyStepsAgree ==
  /\ (Built /\ AllBitsNonNegative) =>
       \A y \in Assignments \cup BranchSnapshots :
         ll_add_lazy_exprs(graph, edges, First, required_bits, y) = LazyCut(y)
  /\ (JustCut /\ AllBitsNonNegative) =>
       ll_add_lazy_exprs(graph, edges, First, required_bits, cur) = last_call.ret

\* the callback of opt.rs has just added a cut over some edge that the step
\* of ll.rs would add as well, and on the same graph the DFS of ll.rs stops
\* early for another assignment
C29_Witness ==
  /\ JustCut
  /\ AllBitsNonNegative
  /\ Unwrap(last_call.ret).terms # <<>>
  /\ ll_add_lazy_exprs(graph, edges, First, required_bits, cur) = last_call.ret
  /\ \E y \in Assignments :
       ll_dfs(ll_connected(graph, y, edges), <<First>>, {}, 0, required_bits).discovered # EntrySide(y)

\* the counters of the callback object before and after a step
Counters == Unwrap(closure)
CountersAfter == Unwrap(closure')

\* C30: across the callback events of one call of optimize the render index
\* grows by one with every render request, so that the labels carry the
\* indexes 1, 2, 3, ... and no two share one; the cut counter is the number
\* of cuts emitted since the last accepted relaxation or new best solution,
\* the branch counter the number of accepted relaxations since the last new
\* best solution, and the solve counter the number of new best solutions so
\* far.
C30_CountersCount ==
  /\ [](Built => (Counters.render = 0 /\ Counters.cut = 0 /\ Counters.branch = 0 /\ Counters.solve = 0))
  /\ []((Solving \/ Done) =>
          /\ Counters.render = Len(rendered)
          /\ \A i \in 1..Len(rendered) : rendered[i].filename.of[1] = i
          /\ Counters.solve = Cardinality({i \in 1..Len(rendered) : rendered[i].filename.kind = "solution"})
          /\ Counters.cut <= Len(CutRows))
  /\ [][(pc = "solving" /\ pc' \in {"solving", "done"}) =>
          /\ (Ran("get_lazy_expr") /\ last_call'.ret # None) =>
               /\ CountersAfter.cut = Counters.cut + 1
               /\ CountersAfter.branch = Counters.branch
               /\ CountersAfter.solve = Counters.solve
          /\ (Ran("get_lazy_expr") /\ last_call'.ret = None) =>
               /\ CountersAfter.cut = 0
               /\ CountersAfter.branch = Counters.branch + 1
               /\ CountersAfter.solve = Counters.solve
          /\ Ran("new_best_solution") =>
               /\ CountersAfter.cut = 0
               /\ CountersAfter.branch = 0
               /\ CountersAfter.solve = Counters.solve + 1
          /\ (~Ran("get_lazy_expr") /\ ~Ran("new_best_solution")) =>
               /\ CountersAfter.cut = Counters.cut
               /\ CountersAfter.branch = Counters.branch
               /\ CountersAfter.solve = Counters.solve
          /\ CountersAfter.render = Counters.render + (Len(rendered') - Len(rendered))
          /\ Len(rendered') - Len(rendered) \in {0, 1}]_vars

\* after a cut, an accepted relaxation and a new best solution the lazy hook
\* has accepted one more relaxation
C30_Witness ==
  /\ Solving
  /\ last_call.hooks = <<"get_lazy_expr">>
  /\ last_call.ret = None
  /\ Len(CutRows) >= 1
  /\ Counters.solve = 1
  /\ Counters.branch = 1
  /\ Counters.cut = 0
  /\ Counters.render = 1

====
